---- MODULE Spec2Model ----
(***************************************************************************)
(* GoogleCalendarApp (universal_mcp_google_calendar/app.py): an adapter    *)
(* whose operations each build one HTTP request for the Google Calendar v3 *)
(* REST API, wait for the response and return a formatted string or the    *)
(* parsed JSON body.                                                       *)
(*                                                                         *)
(* Representation.  A Python str is a sequence of tokens (the letters of   *)
(* the model's alphabet).  In every string the code searches, splits or    *)
(* compares (datetime strings, URLs) the tokens " ", "/", "T" and "Z" are  *)
(* letters of their own, so that `in`, endswith, replace and split are     *)
(* computed on the sequence as Python computes them on the characters; the *)
(* fixed text of a formatted result is kept in whole tokens.               *)
(* A Python value is a record tagged by its type; a JSON object is a       *)
(* record whose domain is the set of keys present.                         *)
(***************************************************************************)
EXTENDS Integers, Sequences, FiniteSets, TLC

VARIABLES
    base_url,      \* self.base_url
    base_api_url,  \* self.base_api_url
    pc,            \* "idle": no call in progress; "waiting": request sent, response pending; "done": the call returned or raised
    op,            \* the operation called
    args,          \* its arguments, by parameter name
    clock,         \* the UTC time the call read
    requests,      \* the HTTP requests the call has issued, in order
    response,      \* the HTTP response received
    parsed,        \* whether response.json() was evaluated
    outcome,       \* "none", "returned", or the exception raised
    result,        \* the value returned
    prev,          \* history: the call before this one, when it was a get_event with no optional argument
    threads,       \* concurrent callers of one instance: each caller's frame (its locals)
    pager,         \* a caller paging through a list: the server's pages, what it was shown
    dt_arg,     \* _format_datetime called on its own: the argument
    dt_ret      \* _format_datetime called on its own: the value returned

\* one caller at a time
call_vars == <<pc, op, args, clock, requests, response, parsed, outcome, result, prev>>

\* _format_datetime on its own
format_vars == <<dt_arg, dt_ret>>

vars == <<base_url, base_api_url, pc, op, args, clock, requests, response, parsed, outcome, result,
          prev, threads, pager, dt_arg, dt_ret>>

(***************************** bounds **************************************)
\* longest "items" list of a response body
MaxItems == 2
\* most optional arguments a caller of a hand-written operation passes explicitly
MaxGiven == 1
\* longest string, in letters, _format_datetime is called with on its own
MaxDtLen == 4
\* most pages the server holds for one listing
MaxPages == 3

(************************** Python values **********************************)
PyNone == [t |-> "None"]
PyStr(s) == [t |-> "str", s |-> s]
PyInt(n) == [t |-> "int", n |-> n]
PyBool(b) == [t |-> "bool", b |-> b]

\* bool(v): the truth value `if v:` tests
Truthy(v) ==
    CASE v.t = "None" -> FALSE
      [] v.t = "str"  -> v.s # <<>>
      [] v.t = "int"  -> v.n # 0
      [] v.t = "bool" -> v.b

\* str(v), as an f-string renders {v}
Fmt(v) ==
    CASE v.t = "None" -> <<"None">>
      [] v.t = "str"  -> v.s
      [] v.t = "int"  -> <<ToString(v.n)>>
      [] v.t = "bool" -> IF v.b THEN <<"True">> ELSE <<"False">>

\* str(b).lower() of a bool
LowerBool(v) == PyStr(IF Truthy(v) THEN <<"true">> ELSE <<"false">>)

Range(s) == {s[i] : i \in 1..Len(s)}

\* tok in s
Contains(s, tok) == \E i \in 1..Len(s) : s[i] = tok

\* s.endswith(tok)
EndsWith(s, tok) == Len(s) > 0 /\ s[Len(s)] = tok

\* s.replace(old, new): every occurrence
Replace(s, old, new) == [i \in 1..Len(s) |-> IF s[i] = old THEN new ELSE s[i]]

FirstIndex(s, tok) == CHOOSE i \in 1..Len(s) : s[i] = tok /\ \A j \in 1..(i - 1) : s[j] # tok

\* s.split(sep): the list of the parts between the separators
RECURSIVE Split(_, _)
Split(s, sep) ==
    IF ~Contains(s, sep) THEN <<s>>
    ELSE LET i == FirstIndex(s, sep)
         IN <<SubSeq(s, 1, i - 1)>> \o Split(SubSeq(s, i + 1, Len(s)), sep)

\* sub in s: sub occurs in s as a contiguous part
Occurs(sub, s) == \E i \in 1..(Len(s) - Len(sub) + 1) : SubSeq(s, i, i + Len(sub) - 1) = sub

\* d.get(key, default) of a JSON object
Get(d, key, default) == IF key \in DOMAIN d THEN d[key] ELSE default

EmptyDict == [k \in {} |-> PyNone]

NotFalsy(a, keys) == [k \in {x \in Range(keys) : Truthy(a[x])} |-> a[k]]

\* {k: v for k, v in [...] if v is not None}
NotNone(a, keys) == [k \in {x \in Range(keys) : a[x] # PyNone} |-> a[k]]

\* the sequences over S of length at most n
RECURSIVE SeqsUpTo(_, _)
SeqsUpTo(S, n) ==
    IF n = 0 THEN {<<>>}
    ELSE LET shorter == SeqsUpTo(S, n - 1)
         IN shorter \cup {Append(s, x) : s \in {q \in shorter : Len(q) = n - 1}, x \in S}

(************************** the constructor ********************************)
BaseUrlV2 == <<"https://www.googleapis.com", "/", "calendar", "/", "v2">>

\* self.base_url = "https://www.googleapis.com/calendar/v3"
BaseUrl == <<"https://www.googleapis.com", "/", "calendar", "/", "v3">>

\* self.base_api_url = "https://www.googleapis.com/calendar/v3/calendars/primary"
BaseApiUrl == <<"https://www.googleapis.com", "/", "calendar", "/", "v3", "/", "calendars", "/", "primary">>

(***************************** the clock ***********************************)
\* date.max.toordinal(): the last day a date can hold (9999-12-31); date.min is day 1
DateMaxOrdinal == 3652059

\* the UTC instants a call may read: the proleptic ordinal of the date, and the time of day
Clocks == {[date |-> 739924, time |-> "20:13:34.123456"], [date |-> 739925, time |-> "00:00:00"]}

\* date.isoformat(): one token per date
isoformat(d) == <<"date#" \o ToString(d)>>

\* today + timedelta(days=days) raises OverflowError outside date.min .. date.max
DateOverflows(today, days) == today + days < 1 \/ today + days > DateMaxOrdinal

(************************ _format_datetime *********************************)
\* the date tokens datetime.fromisoformat accepts, with the fields it reads
DateFields ==
    [tok \in {"2023-06-01", "2023-06-02", "2023-12-31"} |->
        CASE tok = "2023-06-01" -> [y |-> 2023, m |-> 6, d |-> 1]
          [] tok = "2023-06-02" -> [y |-> 2023, m |-> 6, d |-> 2]
          [] tok = "2023-12-31" -> [y |-> 2023, m |-> 12, d |-> 31]]

\* the time tokens datetime.fromisoformat accepts, with the fields it reads
TimeFields ==
    [tok \in {"00:05:00", "10:00:00", "11:00:00", "12:30:00", "15:30:00"} |->
        CASE tok = "00:05:00" -> [H |-> 0, M |-> 5]
          [] tok = "10:00:00" -> [H |-> 10, M |-> 0]
          [] tok = "11:00:00" -> [H |-> 11, M |-> 0]
          [] tok = "12:30:00" -> [H |-> 12, M |-> 30]
          [] tok = "15:30:00" -> [H |-> 15, M |-> 30]]

\* the UTC offsets datetime.fromisoformat accepts
Offsets == {"+00:00", "+02:00", "-05:00"}

\* whether datetime.fromisoformat(s) parses s, a string that contains "T"
IsIso(s) ==
    /\ Len(s) \in {3, 4}
    /\ s[1] \in DOMAIN DateFields
    /\ s[2] = "T"
    /\ s[3] \in DOMAIN TimeFields
    /\ Len(s) = 4 => s[4] \in Offsets

\* datetime.fromisoformat(s): the fields strftime reads
fromisoformat(s) ==
    [y |-> DateFields[s[1]].y, m |-> DateFields[s[1]].m, d |-> DateFields[s[1]].d,
     H |-> TimeFields[s[3]].H, M |-> TimeFields[s[3]].M]

Pad2(n) == IF n < 10 THEN "0" \o ToString(n) ELSE ToString(n)

strftime_24h(dt) ==
    <<ToString(dt.y) \o "-" \o Pad2(dt.m) \o "-" \o Pad2(dt.d),
      " ",
      Pad2(dt.H) \o ":" \o Pad2(dt.M),
      " ",
      IF dt.H < 12 THEN "AM" ELSE "PM">>

\* dt.strftime("%Y-%m-%d %I:%M %p")
strftime(dt) ==
    <<ToString(dt.y) \o "-" \o Pad2(dt.m) \o "-" \o Pad2(dt.d),
      " ",
      Pad2(IF dt.H % 12 = 0 THEN 12 ELSE dt.H % 12) \o ":" \o Pad2(dt.M),
      " ",
      IF dt.H < 12 THEN "AM" ELSE "PM">>

_format_datetime(dt_string) ==
    IF dt_string = <<>> \/ dt_string = <<"Unknown">> THEN <<"Unknown">>
    ELSE IF Contains(dt_string, "T")
         THEN LET s == IF EndsWith(dt_string, "Z")
                       THEN Replace(dt_string, "Z", "+00:00")
                       ELSE dt_string
              IN IF IsIso(s) THEN strftime(fromisoformat(s)) ELSE s
         ELSE dt_string \o <<" ", "(All", " ", "day)">>

(*************************** HTTP layer ************************************)
HttpCallTwice(req) == <<req, req>>

\* self._get / _post / _put / _patch / _delete: one request goes out
HttpCall(req) == <<req>>

raise_for_status_lenient(status) == status >= 500

\* response.raise_for_status(): raises HTTPError for a non-2xx status
raise_for_status(status) == ~(status >= 200 /\ status < 300)

NoData == [t |-> "absent"]
Dict(d) == [t |-> "dict", d |-> d]

NoResult == [t |-> "none"]
NoResponse == [status |-> 0, content |-> "none", json |-> EmptyDict]

Raise(exc) == [outcome |-> exc, result |-> NoResult]
Return(v) == [outcome |-> "returned", result |-> v]

\* d[k] = v added to the dict d
Put(d, k, v) == [x \in DOMAIN d \cup {k} |-> IF x = k THEN v ELSE d[x]]

RECURSIVE Concat(_)
Concat(ss) == IF ss = <<>> THEN <<>> ELSE Head(ss) \o Concat(Tail(ss))

(************************* get_today_events ********************************)
\* "today" if days == 1 else f"the next {days} days"
date_range(days) ==
    IF days = 1 THEN <<"today">> ELSE <<"the next ", ToString(days), " days">>

get_today_events_request(a, now) ==
    LET today == now.date
        end_date == today + a.days.n
        time_min == isoformat(today) \o <<"T", "00:00:00", "Z">>
        time_max == isoformat(end_date) \o <<"T", "00:00:00", "Z">>
        p0 == [timeMin |-> PyStr(time_min), timeMax |-> PyStr(time_max),
               singleEvents |-> PyStr(<<"true">>), orderBy |-> PyStr(<<"startTime">>)]
        p1 == IF a.max_results # PyNone THEN Put(p0, "maxResults", a.max_results) ELSE p0
        p2 == IF Truthy(a.time_zone) THEN Put(p1, "timeZone", a.time_zone) ELSE p1
    IN [verb |-> "GET", url |-> base_api_url \o <<"/", "events">>, params |-> p2, data |-> NoData]

\* one pass of the loop over the events: the line added, or the IndexError of split(" ")[1], [2]
get_today_events_line(days, event) ==
    LET start == Get(event, "start", EmptyDict)
        event_date == IF Contains(Get(start, "dateTime", <<>>), "T")
                      THEN Split(Get(start, "date", Get(start, "dateTime", <<>>)), "T")[1]
                      ELSE Get(start, "date", <<>>)
        start_time == Get(start, "dateTime", Get(start, "date", <<"All", " ", "day">>))
        formatted_time == _format_datetime(start_time)
        parts == Split(formatted_time, " ")
        summary == Get(event, "summary", <<"Untitled event">>)
        event_id == Get(event, "id", <<"No ID">>)
        line(time_display) == <<"- ">> \o time_display \o <<": ">> \o summary
                              \o <<" (ID: ">> \o event_id \o <<")\n">>
    IN IF Contains(start_time, "T")
       THEN IF days > 1
            THEN [err |-> FALSE, text |-> line(formatted_time)]
            ELSE IF Len(parts) < 3
                 THEN [err |-> TRUE, text |-> <<>>]
                 ELSE [err |-> FALSE, text |-> line(parts[2] \o <<" ">> \o parts[3])]
       ELSE [err |-> FALSE,
             text |-> line(IF days > 1 THEN event_date \o <<" (All day)">> ELSE <<"All day">>)]

get_today_events_result(a, json) ==
    LET days == a.days.n
        events == Get(json, "items", <<>>)
        lines == [i \in 1..Len(events) |-> get_today_events_line(days, events[i])]
    IN IF events = <<>>
       THEN Return(PyStr(<<"No events scheduled for ">> \o date_range(days) \o <<".">>))
       ELSE IF \E i \in 1..Len(events) : lines[i].err
            THEN Raise("IndexError")
            ELSE Return(PyStr(<<"Events for ">> \o date_range(days) \o <<":\n\n">>
                              \o Concat([i \in 1..Len(events) |-> lines[i].text])))

(***************************** get_event ***********************************)
get_event_request_by_none(a) ==
    LET p0 == EmptyDict
        p1 == IF a.max_attendees # PyNone THEN Put(p0, "maxAttendees", a.max_attendees) ELSE p0
        p2 == IF a.time_zone # PyNone THEN Put(p1, "timeZone", a.time_zone) ELSE p1
    IN [verb |-> "GET", url |-> base_api_url \o <<"/", "events", "/">> \o Fmt(a.event_id),
        params |-> p2, data |-> NoData]

get_event_request(a) ==
    LET p0 == EmptyDict
        p1 == IF a.max_attendees # PyNone THEN Put(p0, "maxAttendees", a.max_attendees) ELSE p0
        p2 == IF Truthy(a.time_zone) THEN Put(p1, "timeZone", a.time_zone) ELSE p1
    IN [verb |-> "GET", url |-> base_api_url \o <<"/", "events", "/">> \o Fmt(a.event_id),
        params |-> p2, data |-> NoData]

\* status_mapping.get(response_status, response_status)
status_mapping(response_status) ==
    CASE response_status = <<"accepted">> -> <<"Accepted">>
      [] response_status = <<"declined">> -> <<"Declined">>
      [] response_status = <<"tentative">> -> <<"Maybe">>
      [] response_status = <<"needsAction">> -> <<"Not responded">>
      [] OTHER -> response_status

get_event_attendee(i, attendee) ==
    LET email == Get(attendee, "email", <<"No email">>)
        name == Get(attendee, "displayName", email)
        response_status == Get(attendee, "responseStatus", <<"Unknown">>)
    IN <<"  ", ToString(i), ". ">> \o name \o <<" (">> \o email \o <<") - ">>
       \o status_mapping(response_status) \o <<"\n">>

get_event_result_start_twice(a, event) ==
    LET summary == Get(event, "summary", <<"Untitled event">>)
        start == Get(event, "start", EmptyDict)
        start_formatted == _format_datetime(Get(start, "dateTime", Get(start, "date", <<"Unknown">>)))
    IN Return(PyStr(
         <<"Event: ">> \o summary \o <<"\n">>
         \o <<"When: ">> \o start_formatted \o <<" to ">> \o start_formatted \o <<"\n">>
         \o <<"Recurring: ">> \o (IF "recurrence" \in DOMAIN event THEN <<"Yes">> ELSE <<"No">>)
         \o <<"\n">>))

get_event_result(a, event) ==
    LET summary == Get(event, "summary", <<"Untitled event">>)
        description == Get(event, "description", <<"No description">>)
        location == Get(event, "location", <<"No location specified">>)
        start == Get(event, "start", EmptyDict)
        end == Get(event, "end", EmptyDict)
        start_time == Get(start, "dateTime", Get(start, "date", <<"Unknown">>))
        end_time == Get(end, "dateTime", Get(end, "date", <<"Unknown">>))
        start_formatted == _format_datetime(start_time)
        end_formatted == _format_datetime(end_time)
        creator == Get(Get(event, "creator", EmptyDict), "email", <<"Unknown">>)
        organizer == Get(Get(event, "organizer", EmptyDict), "email", <<"Unknown">>)
        recurrence == IF "recurrence" \in DOMAIN event THEN <<"Yes">> ELSE <<"No">>
        attendees == Get(event, "attendees", <<>>)
        attendee_info ==
            IF attendees # <<>>
            THEN <<"\nAttendees:\n">>
                 \o Concat([i \in 1..Len(attendees) |-> get_event_attendee(i, attendees[i])])
            ELSE <<>>
    IN Return(PyStr(
         <<"Event: ">> \o summary \o <<"\n">>
         \o <<"ID: ">> \o Fmt(a.event_id) \o <<"\n">>
         \o <<"When: ">> \o start_formatted \o <<" to ">> \o end_formatted \o <<"\n">>
         \o <<"Where: ">> \o location \o <<"\n">>
         \o <<"Description: ">> \o description \o <<"\n">>
         \o <<"Creator: ">> \o creator \o <<"\n">>
         \o <<"Organizer: ">> \o organizer \o <<"\n">>
         \o <<"Recurring: ">> \o recurrence \o <<"\n">>
         \o attendee_info))

(**************************** list_events **********************************)
list_events_request_no_default(a, now) ==
    LET p0 == [maxResults |-> a.max_results,
               singleEvents |-> LowerBool(a.single_events),
               orderBy |-> a.order_by]
        p1 == IF Truthy(a.time_min) THEN Put(p0, "timeMin", a.time_min) ELSE p0
        p2 == IF Truthy(a.time_max) THEN Put(p1, "timeMax", a.time_max) ELSE p1
        p3 == IF Truthy(a.q) THEN Put(p2, "q", a.q) ELSE p2
        p4 == IF Truthy(a.time_zone) THEN Put(p3, "timeZone", a.time_zone) ELSE p3
        p5 == IF Truthy(a.page_token) THEN Put(p4, "pageToken", a.page_token) ELSE p4
    IN [verb |-> "GET", url |-> base_api_url \o <<"/", "events">>, params |-> p5, data |-> NoData]

list_events_request(a, now) ==
    LET p0 == [maxResults |-> a.max_results,
               singleEvents |-> LowerBool(a.single_events),
               orderBy |-> a.order_by]
        p1 == IF Truthy(a.time_min)
              THEN Put(p0, "timeMin", a.time_min)
              ELSE Put(p0, "timeMin", PyStr(isoformat(now.date) \o <<"T", now.time, "Z">>))
        p2 == IF Truthy(a.time_max) THEN Put(p1, "timeMax", a.time_max) ELSE p1
        p3 == IF Truthy(a.q) THEN Put(p2, "q", a.q) ELSE p2
        p4 == IF Truthy(a.time_zone) THEN Put(p3, "timeZone", a.time_zone) ELSE p3
        p5 == IF Truthy(a.page_token) THEN Put(p4, "pageToken", a.page_token) ELSE p4
    IN [verb |-> "GET", url |-> base_api_url \o <<"/", "events">>, params |-> p5, data |-> NoData]

list_events_entry(i, n, event) ==
    LET event_id == Get(event, "id", <<"No ID">>)
        summary == Get(event, "summary", <<"Untitled event">>)
        start == Get(event, "start", EmptyDict)
        start_time == Get(start, "dateTime", Get(start, "date", <<"Unknown">>))
        start_formatted == _format_datetime(start_time)
        location == Get(event, "location", <<"No location specified">>)
        recurring_info == IF "recurrence" \in DOMAIN event THEN <<" (Recurring)">> ELSE <<>>
    IN <<ToString(i), ". ">> \o summary \o recurring_info \o <<"\n">>
       \o <<"   ID: ">> \o event_id \o <<"\n">>
       \o <<"   When: ">> \o start_formatted \o <<"\n">>
       \o <<"   Where: ">> \o location \o <<"\n">>
       \o (IF i < n THEN <<"\n">> ELSE <<>>)

list_events_result(a, data) ==
    LET events == Get(data, "items", <<>>)
        calendar_summary == Get(data, "summary", <<"Your Calendar">>)
        time_zone_info == Get(data, "timeZone", <<"Unknown">>)
        page ==
            IF "nextPageToken" \in DOMAIN data
            THEN <<"\nMore events available. Use ", "page_token='">> \o data.nextPageToken
                 \o <<"'", " to see more.">>
            ELSE <<>>
    IN IF events = <<>>
       THEN Return(PyStr(<<"No events found matching your criteria.">>))
       ELSE Return(PyStr(
              <<"Events from ">> \o calendar_summary \o <<" (Time Zone: ">> \o time_zone_info
              \o <<"):\n\n">>
              \o Concat([i \in 1..Len(events) |-> list_events_entry(i, Len(events), events[i])])
              \o page))

(************************** quick_add_event ********************************)
quick_add_event_request(a) ==
    [verb |-> "POST", url |-> base_api_url \o <<"/", "events", "/", "quickAdd">>,
     params |-> [text |-> a.text, sendUpdates |-> a.send_updates], data |-> PyNone]

quick_add_event_result_always_to(a, event) ==
    LET start == Get(event, "start", EmptyDict)
        end == Get(event, "end", EmptyDict)
        start_formatted == _format_datetime(Get(start, "dateTime", Get(start, "date", <<"Unknown">>)))
        end_formatted == _format_datetime(Get(end, "dateTime", Get(end, "date", <<"Unknown">>)))
    IN Return(PyStr(
         <<"Successfully created event!\n\n">>
         \o <<"When: ">> \o start_formatted \o <<" to ">> \o end_formatted
         \o <<"\nWhere: ">> \o Get(event, "location", <<"No location specified">>) \o <<"\n">>))

quick_add_event_result(a, event) ==
    LET event_id == Get(event, "id", <<"Unknown">>)
        summary == Get(event, "summary", <<"Untitled event">>)
        start == Get(event, "start", EmptyDict)
        end == Get(event, "end", EmptyDict)
        start_time == Get(start, "dateTime", Get(start, "date", <<"Unknown">>))
        end_time == Get(end, "dateTime", Get(end, "date", <<"Unknown">>))
        start_formatted == _format_datetime(start_time)
        end_formatted == _format_datetime(end_time)
        location == Get(event, "location", <<"No location specified">>)
    IN Return(PyStr(
         <<"Successfully created event!\n\n">>
         \o <<"Summary: ">> \o summary \o <<"\n">>
         \o <<"When: ">> \o start_formatted
         \o (IF start_formatted # end_formatted THEN <<" to ">> \o end_formatted ELSE <<>>)
         \o <<"\nWhere: ">> \o location \o <<"\n">>
         \o <<"Event ID: ">> \o event_id \o <<"\n">>
         \o <<"\nUse get_event('">> \o event_id \o <<"') to see full details.">>))

(************************ get_event_instances ******************************)
get_event_instances_request(a) ==
    LET p0 == [maxResults |-> a.max_results, showDeleted |-> LowerBool(a.show_deleted)]
        p1 == IF Truthy(a.time_min) THEN Put(p0, "timeMin", a.time_min) ELSE p0
        p2 == IF Truthy(a.time_max) THEN Put(p1, "timeMax", a.time_max) ELSE p1
        p3 == IF Truthy(a.time_zone) THEN Put(p2, "timeZone", a.time_zone) ELSE p2
        p4 == IF Truthy(a.page_token) THEN Put(p3, "pageToken", a.page_token) ELSE p3
    IN [verb |-> "GET",
        url |-> base_api_url \o <<"/", "events", "/">> \o Fmt(a.event_id) \o <<"/", "instances">>,
        params |-> p4, data |-> NoData]

get_event_instances_entry(i, n, instance) ==
    LET instance_id == Get(instance, "id", <<"No ID">>)
        status == Get(instance, "status", <<"confirmed">>)
        status_display ==
            IF status = <<"cancelled">> THEN <<" [CANCELLED]">>
            ELSE IF status = <<"tentative">> THEN <<" [TENTATIVE]">>
            ELSE <<>>
        start == Get(instance, "start", EmptyDict)
        original_start_time == Get(instance, "originalStartTime", EmptyDict)
        is_modified == "dateTime" \in DOMAIN original_start_time
        modified_indicator == IF is_modified THEN <<" [MODIFIED]">> ELSE <<>>
        start_time == Get(start, "dateTime", Get(start, "date", <<"Unknown">>))
        formatted_time == _format_datetime(start_time)
        orig_time == Get(original_start_time, "dateTime",
                         Get(original_start_time, "date", <<"Unknown">>))
        orig_formatted == _format_datetime(orig_time)
    IN <<ToString(i), ". ">> \o formatted_time \o status_display \o modified_indicator \o <<"\n">>
       \o <<"   Instance ID: ">> \o instance_id \o <<"\n">>
       \o (IF is_modified THEN <<"   Original time: ">> \o orig_formatted \o <<"\n">> ELSE <<>>)
       \o (IF i < n THEN <<"\n">> ELSE <<>>)

get_event_instances_result(a, data) ==
    LET instances == Get(data, "items", <<>>)
        parent_summary == Get(instances[1], "summary", <<"Untitled recurring event">>)
        page ==
            IF "nextPageToken" \in DOMAIN data
            THEN <<"\nMore instances available. Use ", "page_token='">> \o data.nextPageToken
                 \o <<"'", " to see more.">>
            ELSE <<>>
    IN IF instances = <<>>
       THEN Return(PyStr(<<"No instances found for recurring event with ID: ">> \o Fmt(a.event_id)))
       ELSE Return(PyStr(
              <<"Instances of recurring event: ">> \o parent_summary \o <<"\n\n">>
              \o Concat([i \in 1..Len(instances) |->
                            get_event_instances_entry(i, Len(instances), instances[i])])
              \o page))

(********************* the generated operations ****************************)
get_access_control_rule_request(a) ==
    [verb |-> "GET",
     url |-> base_url \o <<"/", "calendars", "/">> \o Fmt(a.calendarId) \o <<"/", "acl", "/">> \o Fmt(a.ruleId),
     params |-> NotNone(a, <<"alt", "fields", "key", "oauth_token", "prettyPrint",
                             "quotaUser", "userIp">>),
     data |-> NoData]

update_access_control_rule_request(a) ==
    [verb |-> "PUT",
     url |-> base_url \o <<"/", "calendars", "/">> \o Fmt(a.calendarId) \o <<"/", "acl", "/">> \o Fmt(a.ruleId),
     params |-> NotNone(a, <<"sendNotifications", "alt", "fields", "key", "oauth_token",
                             "prettyPrint", "quotaUser", "userIp">>),
     data |-> Dict(NotNone(a, <<"etag", "id", "kind", "role", "scope">>))]

delete_access_control_rule_request(a) ==
    [verb |-> "DELETE",
     url |-> base_url \o <<"/", "calendars", "/">> \o Fmt(a.calendarId) \o <<"/", "acl", "/">> \o Fmt(a.ruleId),
     params |-> NotNone(a, <<"alt", "fields", "key", "oauth_token", "prettyPrint",
                             "quotaUser", "userIp">>),
     data |-> NoData]

patch_access_control_rule_request(a) ==
    [verb |-> "PATCH",
     url |-> base_url \o <<"/", "calendars", "/">> \o Fmt(a.calendarId) \o <<"/", "acl", "/">> \o Fmt(a.ruleId),
     params |-> NotNone(a, <<"sendNotifications", "alt", "fields", "key", "oauth_token",
                             "prettyPrint", "quotaUser", "userIp">>),
     data |-> Dict(NotNone(a, <<"etag", "id", "kind", "role", "scope">>))]

return_access_control_rules_request(a) ==
    [verb |-> "GET",
     url |-> base_url \o <<"/", "calendars", "/">> \o Fmt(a.calendarId) \o <<"/", "acl">>,
     params |-> NotNone(a, <<"maxResults", "pageToken", "showDeleted", "syncToken", "alt",
                             "fields", "key", "oauth_token", "prettyPrint", "quotaUser",
                             "userIp">>),
     data |-> NoData]

insert_access_control_rule_request(a) ==
    [verb |-> "POST",
     url |-> base_url \o <<"/", "calendars", "/">> \o Fmt(a.calendarId) \o <<"/", "acl">>,
     params |-> NotNone(a, <<"sendNotifications", "alt", "fields", "key", "oauth_token",
                             "prettyPrint", "quotaUser", "userIp">>),
     data |-> Dict(NotNone(a, <<"etag", "id", "kind", "role", "scope">>))]

watch_access_control_rules_request(a) ==
    [verb |-> "POST",
     url |-> base_url \o <<"/", "calendars", "/">> \o Fmt(a.calendarId) \o <<"/", "acl", "/", "watch">>,
     params |-> NotNone(a, <<"maxResults", "pageToken", "showDeleted", "syncToken", "alt",
                             "fields", "key", "oauth_token", "prettyPrint", "quotaUser",
                             "userIp">>),
     data |-> Dict(NotNone(a, <<"address", "expiration", "id", "kind", "params", "payload",
                                "resourceId", "resourceUri", "token", "type">>))]

delete_event_request(a) ==
    [verb |-> "DELETE",
     url |-> base_url \o <<"/", "calendars", "/">> \o Fmt(a.calendarId) \o <<"/", "events", "/">> \o Fmt(a.eventId),
     params |-> NotNone(a, <<"sendNotifications", "sendUpdates", "alt", "fields", "key",
                             "oauth_token", "prettyPrint", "quotaUser", "userIp">>),
     data |-> NoData]

insert_event_request(a) ==
    [verb |-> "GET",
     url |-> base_url \o <<"/", "calendars", "/">> \o Fmt(a.calendarId) \o <<"/", "events", "/">> \o Fmt(a.eventId) \o <<"/", "instances">>,
     params |-> NotNone(a, <<"alwaysIncludeEmail", "maxAttendees", "maxResults",
                             "originalStart", "pageToken", "showDeleted", "timeMax",
                             "timeMin", "timeZone", "alt", "fields", "key", "oauth_token",
                             "prettyPrint", "quotaUser", "userIp">>),
     data |-> NoData]

move_event_request(a) ==
    [verb |-> "POST",
     url |-> base_url \o <<"/", "calendars", "/">> \o Fmt(a.calendarId) \o <<"/", "events", "/">> \o Fmt(a.eventId) \o <<"/", "move">>,
     params |-> NotNone(a, <<"destination", "sendNotifications", "sendUpdates", "alt",
                             "fields", "key", "oauth_token", "prettyPrint", "quotaUser",
                             "userIp">>),
     data |-> Dict(EmptyDict)]

return_events_from_calendar_request(a) ==
    [verb |-> "GET",
     url |-> base_url \o <<"/", "calendars", "/">> \o Fmt(a.calendarId) \o <<"/", "events">>,
     params |-> NotNone(a, <<"alwaysIncludeEmail", "eventTypes", "iCalUID", "maxAttendees",
                             "maxResults", "orderBy", "pageToken",
                             "privateExtendedProperty", "q", "sharedExtendedProperty",
                             "showDeleted", "showHiddenInvitations", "singleEvents",
                             "syncToken", "timeMax", "timeMin", "timeZone", "updatedMin",
                             "alt", "fields", "key", "oauth_token", "prettyPrint",
                             "quotaUser", "userIp">>),
     data |-> NoData]

watch_events_request(a) ==
    [verb |-> "POST",
     url |-> base_url \o <<"/", "calendars", "/">> \o Fmt(a.calendarId) \o <<"/", "events", "/", "watch">>,
     params |-> NotNone(a, <<"alwaysIncludeEmail", "eventTypes", "iCalUID", "maxAttendees",
                             "maxResults", "orderBy", "pageToken",
                             "privateExtendedProperty", "q", "sharedExtendedProperty",
                             "showDeleted", "showHiddenInvitations", "singleEvents",
                             "syncToken", "timeMax", "timeMin", "timeZone", "updatedMin",
                             "alt", "fields", "key", "oauth_token", "prettyPrint",
                             "quotaUser", "userIp">>),
     data |-> Dict(NotNone(a, <<"address", "expiration", "id", "kind", "params", "payload",
                                "resourceId", "resourceUri", "token", "type">>))]

get_calendar_request(a) ==
    [verb |-> "GET",
     url |-> base_url \o <<"/", "calendars", "/">> \o Fmt(a.calendarId),
     params |-> NotNone(a, <<"alt", "fields", "key", "oauth_token", "prettyPrint",
                             "quotaUser", "userIp">>),
     data |-> NoData]

update_calendar_request(a) ==
    [verb |-> "PUT",
     url |-> base_url \o <<"/", "calendars", "/">> \o Fmt(a.calendarId),
     params |-> NotNone(a, <<"alt", "fields", "key", "oauth_token", "prettyPrint",
                             "quotaUser", "userIp">>),
     data |-> Dict(NotNone(a, <<"conferenceProperties", "description", "etag", "id",
                                "kind", "location", "summary", "timeZone">>))]

delete_calendar_request(a) ==
    [verb |-> "DELETE",
     url |-> base_url \o <<"/", "calendars", "/">> \o Fmt(a.calendarId),
     params |-> NotNone(a, <<"alt", "fields", "key", "oauth_token", "prettyPrint",
                             "quotaUser", "userIp">>),
     data |-> NoData]

patch_calendar_request_put(a) ==
    [verb |-> "PUT",
     url |-> base_url \o <<"/", "calendars", "/">> \o Fmt(a.calendarId),
     params |-> NotNone(a, <<"alt", "fields", "key", "oauth_token", "prettyPrint",
                             "quotaUser", "userIp">>),
     data |-> Dict(NotNone(a, <<"conferenceProperties", "description", "etag", "id",
                                "kind", "location", "summary", "timeZone">>))]

patch_calendar_request(a) ==
    [verb |-> "PATCH",
     url |-> base_url \o <<"/", "calendars", "/">> \o Fmt(a.calendarId),
     params |-> NotNone(a, <<"alt", "fields", "key", "oauth_token", "prettyPrint",
                             "quotaUser", "userIp">>),
     data |-> Dict(NotNone(a, <<"conferenceProperties", "description", "etag", "id",
                                "kind", "location", "summary", "timeZone">>))]

clear_calendar_request(a) ==
    [verb |-> "POST",
     url |-> base_url \o <<"/", "calendars", "/">> \o Fmt(a.calendarId) \o <<"/", "clear">>,
     params |-> NotNone(a, <<"alt", "fields", "key", "oauth_token", "prettyPrint",
                             "quotaUser", "userIp">>),
     data |-> Dict(EmptyDict)]

calendar_request(a) ==
    [verb |-> "POST",
     url |-> base_url \o <<"/", "calendars">>,
     params |-> NotNone(a, <<"alt", "fields", "key", "oauth_token", "prettyPrint",
                             "quotaUser", "userIp">>),
     data |-> Dict(NotNone(a, <<"conferenceProperties", "description", "etag", "id",
                                "kind", "location", "summary", "timeZone">>))]

get_calendar_list_request(a) ==
    [verb |-> "GET",
     url |-> base_url \o <<"/", "users", "/", "me", "/", "calendarList", "/">> \o Fmt(a.calendarId),
     params |-> NotNone(a, <<"alt", "fields", "key", "oauth_token", "prettyPrint",
                             "quotaUser", "userIp">>),
     data |-> NoData]

update_calendar_list_request(a) ==
    [verb |-> "PUT",
     url |-> base_url \o <<"/", "users", "/", "me", "/", "calendarList", "/">> \o Fmt(a.calendarId),
     params |-> NotNone(a, <<"colorRgbFormat", "alt", "fields", "key", "oauth_token",
                             "prettyPrint", "quotaUser", "userIp">>),
     data |-> Dict(NotNone(a, <<"accessRole", "backgroundColor", "colorId",
                                "conferenceProperties", "defaultReminders", "deleted",
                                "description", "etag", "foregroundColor", "hidden", "id",
                                "kind", "location", "notificationSettings", "primary",
                                "selected", "summary", "summaryOverride", "timeZone">>))]

remove_calendar_on_list_request(a) ==
    [verb |-> "DELETE",
     url |-> base_url \o <<"/", "users", "/", "me", "/", "calendarList", "/">> \o Fmt(a.calendarId),
     params |-> NotNone(a, <<"alt", "fields", "key", "oauth_token", "prettyPrint",
                             "quotaUser", "userIp">>),
     data |-> NoData]

patch_calendar_list_request(a) ==
    [verb |-> "PATCH",
     url |-> base_url \o <<"/", "users", "/", "me", "/", "calendarList", "/">> \o Fmt(a.calendarId),
     params |-> NotNone(a, <<"colorRgbFormat", "alt", "fields", "key", "oauth_token",
                             "prettyPrint", "quotaUser", "userIp">>),
     data |-> Dict(NotNone(a, <<"accessRole", "backgroundColor", "colorId",
                                "conferenceProperties", "defaultReminders", "deleted",
                                "description", "etag", "foregroundColor", "hidden", "id",
                                "kind", "location", "notificationSettings", "primary",
                                "selected", "summary", "summaryOverride", "timeZone">>))]

insert_calendar_on_list_request(a) ==
    [verb |-> "POST",
     url |-> base_url \o <<"/", "users", "/", "me", "/", "calendarList">>,
     params |-> NotNone(a, <<"colorRgbFormat", "alt", "fields", "key", "oauth_token",
                             "prettyPrint", "quotaUser", "userIp">>),
     data |-> Dict(NotNone(a, <<"accessRole", "backgroundColor", "colorId",
                                "conferenceProperties", "defaultReminders", "deleted",
                                "description", "etag", "foregroundColor", "hidden", "id",
                                "kind", "location", "notificationSettings", "primary",
                                "selected", "summary", "summaryOverride", "timeZone">>))]

list_calendars_request(a) ==
    [verb |-> "GET",
     url |-> base_url \o <<"/", "users", "/">> \o Fmt(a.userId) \o <<"/", "calendarList">>,
     params |-> NotNone(a, <<"maxResults", "minAccessRole", "pageToken", "showDeleted",
                             "showHidden", "syncToken", "alt", "fields", "key",
                             "oauth_token", "prettyPrint", "quotaUser", "userIp">>),
     data |-> NoData]

watch_calendar_list_request(a) ==
    [verb |-> "POST",
     url |-> base_url \o <<"/", "users", "/", "me", "/", "calendarList", "/", "watch">>,
     params |-> NotNone(a, <<"maxResults", "minAccessRole", "pageToken", "showDeleted",
                             "showHidden", "syncToken", "alt", "fields", "key",
                             "oauth_token", "prettyPrint", "quotaUser", "userIp">>),
     data |-> Dict(NotNone(a, <<"address", "expiration", "id", "kind", "params", "payload",
                                "resourceId", "resourceUri", "token", "type">>))]

list_calendar_settings_request(a) ==
    [verb |-> "GET",
     url |-> base_url \o <<"/", "users", "/", "me", "/", "settings">>,
     params |-> NotNone(a, <<"maxResults", "pageToken", "syncToken", "alt", "fields",
                             "key", "oauth_token", "prettyPrint", "quotaUser", "userIp">>),
     data |-> NoData]

get_calendar_settings_request(a) ==
    [verb |-> "GET",
     url |-> base_url \o <<"/", "users", "/", "me", "/", "settings", "/">> \o Fmt(a.setting),
     params |-> NotNone(a, <<"alt", "fields", "key", "oauth_token", "prettyPrint",
                             "quotaUser", "userIp">>),
     data |-> NoData]

watch_calendar_settings_request(a) ==
    [verb |-> "POST",
     url |-> base_url \o <<"/", "users", "/", "me", "/", "settings", "/", "watch">>,
     params |-> NotNone(a, <<"maxResults", "pageToken", "syncToken", "alt", "fields",
                             "key", "oauth_token", "prettyPrint", "quotaUser", "userIp">>),
     data |-> Dict(NotNone(a, <<"address", "expiration", "id", "kind", "params", "payload",
                                "resourceId", "resourceUri", "token", "type">>))]

stop_calendar_channel_request(a) ==
    [verb |-> "POST",
     url |-> base_url \o <<"/", "channels", "/", "stop">>,
     params |-> NotNone(a, <<"alt", "fields", "key", "oauth_token", "prettyPrint",
                             "quotaUser", "userIp">>),
     data |-> Dict(NotNone(a, <<"address", "expiration", "id", "kind", "params", "payload",
                                "resourceId", "resourceUri", "token", "type">>))]

get_calendar_colors_request(a) ==
    [verb |-> "GET",
     url |-> base_url \o <<"/", "colors">>,
     params |-> NotNone(a, <<"alt", "fields", "key", "oauth_token", "prettyPrint",
                             "quotaUser", "userIp">>),
     data |-> NoData]

query_free_busy_request(a) ==
    [verb |-> "POST",
     url |-> base_url \o <<"/", "freeBusy">>,
     params |-> NotNone(a, <<"alt", "fields", "key", "oauth_token", "prettyPrint",
                             "quotaUser", "userIp">>),
     data |-> Dict(NotNone(a, <<"calendarExpansionMax", "groupExpansionMax", "items",
                                "timeMax", "timeMin", "timeZone">>))]

(******************** the operations, by name ******************************)
HandWritten == {"get_today_events", "get_event", "list_events", "quick_add_event",
                "get_event_instances"}

\* the operations generated from the OpenAPI description
GeneratedOps == {"get_access_control_rule", "update_access_control_rule",
                 "delete_access_control_rule", "patch_access_control_rule",
                 "return_access_control_rules", "insert_access_control_rule",
                 "watch_access_control_rules", "delete_event", "insert_event",
                 "move_event", "return_events_from_calendar", "watch_events",
                 "get_calendar", "update_calendar", "delete_calendar", "patch_calendar",
                 "clear_calendar", "calendar", "get_calendar_list",
                 "update_calendar_list", "remove_calendar_on_list",
                 "patch_calendar_list", "insert_calendar_on_list", "list_calendars",
                 "watch_calendar_list", "list_calendar_settings",
                 "get_calendar_settings", "watch_calendar_settings",
                 "stop_calendar_channel", "get_calendar_colors", "query_free_busy"}

\* list_tools(): the public operations
Ops == HandWritten \cup GeneratedOps

\* the request operation o builds from arguments a at time now
RequestOf(o, a, now) ==
    CASE o = "get_today_events" -> get_today_events_request(a, now)
      [] o = "get_event" -> get_event_request(a)
      [] o = "list_events" -> list_events_request(a, now)
      [] o = "quick_add_event" -> quick_add_event_request(a)
      [] o = "get_event_instances" -> get_event_instances_request(a)
      [] o = "get_access_control_rule" -> get_access_control_rule_request(a)
      [] o = "update_access_control_rule" -> update_access_control_rule_request(a)
      [] o = "delete_access_control_rule" -> delete_access_control_rule_request(a)
      [] o = "patch_access_control_rule" -> patch_access_control_rule_request(a)
      [] o = "return_access_control_rules" -> return_access_control_rules_request(a)
      [] o = "insert_access_control_rule" -> insert_access_control_rule_request(a)
      [] o = "watch_access_control_rules" -> watch_access_control_rules_request(a)
      [] o = "delete_event" -> delete_event_request(a)
      [] o = "insert_event" -> insert_event_request(a)
      [] o = "move_event" -> move_event_request(a)
      [] o = "return_events_from_calendar" -> return_events_from_calendar_request(a)
      [] o = "watch_events" -> watch_events_request(a)
      [] o = "get_calendar" -> get_calendar_request(a)
      [] o = "update_calendar" -> update_calendar_request(a)
      [] o = "delete_calendar" -> delete_calendar_request(a)
      [] o = "patch_calendar" -> patch_calendar_request(a)
      [] o = "clear_calendar" -> clear_calendar_request(a)
      [] o = "calendar" -> calendar_request(a)
      [] o = "get_calendar_list" -> get_calendar_list_request(a)
      [] o = "update_calendar_list" -> update_calendar_list_request(a)
      [] o = "remove_calendar_on_list" -> remove_calendar_on_list_request(a)
      [] o = "patch_calendar_list" -> patch_calendar_list_request(a)
      [] o = "insert_calendar_on_list" -> insert_calendar_on_list_request(a)
      [] o = "list_calendars" -> list_calendars_request(a)
      [] o = "watch_calendar_list" -> watch_calendar_list_request(a)
      [] o = "list_calendar_settings" -> list_calendar_settings_request(a)
      [] o = "get_calendar_settings" -> get_calendar_settings_request(a)
      [] o = "watch_calendar_settings" -> watch_calendar_settings_request(a)
      [] o = "stop_calendar_channel" -> stop_calendar_channel_request(a)
      [] o = "get_calendar_colors" -> get_calendar_colors_request(a)
      [] o = "query_free_busy" -> query_free_busy_request(a)

(************************* inputs of the model *****************************)
\* values a caller passes for a path parameter
PathVals == {PyNone, PyStr(<<"primary">>), PyStr(<<"c1">>)}

\* values a caller passes for an optional parameter of a generated operation
OptVals == {PyStr(<<>>), PyStr(<<"x">>), PyBool(FALSE), PyInt(0)}

\* the calls of a generated operation: any path parameters, at most one optional argument given
GeneratedArgs(required, optional) ==
    {[n \in Range(required) \cup Range(optional) |->
         IF n \in DOMAIN rv THEN rv[n] ELSE IF n = k THEN v ELSE PyNone] :
       rv \in [Range(required) -> PathVals], k \in Range(optional) \cup {"-"}, v \in OptVals}

\* how many of the parameters `names` differ from None
GivenCount(a, names) == Cardinality({k \in names : a[k] # PyNone})

DaysValues == {-1, 0, 1, 2, 3000000}

get_today_events_args ==
    {a \in [days : {PyInt(d) : d \in DaysValues},
            max_results : {PyNone, PyInt(0), PyInt(5)},
            time_zone : {PyNone, PyStr(<<>>), PyStr(<<"UTC">>)}] :
        GivenCount(a, {"max_results", "time_zone"}) <= MaxGiven}

get_event_args ==
    {a \in [event_id : {PyNone, PyStr(<<"e1">>)},
            max_attendees : {PyNone, PyInt(0), PyInt(5)},
            time_zone : {PyNone, PyStr(<<>>), PyStr(<<"UTC">>)}] :
        GivenCount(a, {"max_attendees", "time_zone"}) <= MaxGiven}

list_events_defaults ==
    [max_results |-> PyInt(10), time_min |-> PyNone, time_max |-> PyNone, q |-> PyNone,
     order_by |-> PyStr(<<"startTime">>), single_events |-> PyBool(TRUE),
     time_zone |-> PyNone, page_token |-> PyNone]

list_events_args ==
    {a \in [max_results : {PyInt(10), PyInt(0), PyInt(3000)},
            time_min : {PyNone, PyStr(<<>>), PyStr(<<"2023-06-01", "T", "00:05:00", "Z">>)},
            time_max : {PyNone, PyStr(<<>>), PyStr(<<"2023-12-31", "T", "15:30:00", "Z">>)},
            q : {PyNone, PyStr(<<>>), PyStr(<<"lunch">>)},
            order_by : {PyStr(<<"startTime">>), PyStr(<<"updated">>)},
            single_events : {PyBool(TRUE), PyBool(FALSE)},
            time_zone : {PyNone, PyStr(<<>>), PyStr(<<"UTC">>)},
            page_token : {PyNone, PyStr(<<>>), PyStr(<<"tok1">>)}] :
        Cardinality({k \in DOMAIN a : a[k] # list_events_defaults[k]}) <= MaxGiven}

quick_add_event_args ==
    [text : {PyNone, PyStr(<<>>), PyStr(<<"Lunch", " ", "tomorrow">>)},
     send_updates : {PyStr(<<"none">>), PyStr(<<"all">>), PyNone}]

get_event_instances_defaults ==
    [max_results |-> PyInt(25), time_min |-> PyNone, time_max |-> PyNone,
     time_zone |-> PyNone, show_deleted |-> PyBool(FALSE), page_token |-> PyNone]

get_event_instances_args ==
    {a \in [event_id : {PyNone, PyStr(<<"e1">>)},
            max_results : {PyInt(25), PyInt(0), PyInt(3000)},
            time_min : {PyNone, PyStr(<<>>), PyStr(<<"2023-06-01", "T", "00:05:00", "Z">>)},
            time_max : {PyNone, PyStr(<<>>), PyStr(<<"2023-12-31", "T", "15:30:00", "Z">>)},
            time_zone : {PyNone, PyStr(<<>>), PyStr(<<"UTC">>)},
            show_deleted : {PyBool(FALSE), PyBool(TRUE)},
            page_token : {PyNone, PyStr(<<>>), PyStr(<<"tok1">>)}] :
        Cardinality({k \in DOMAIN get_event_instances_defaults :
                        a[k] # get_event_instances_defaults[k]}) <= MaxGiven}

\* events a response body may carry
EvTimed ==
    [id |-> <<"e1">>, summary |-> <<"Standup">>, location |-> <<"Room 1">>,
     status |-> <<"confirmed">>,
     start |-> [dateTime |-> <<"2023-06-01", "T", "10:00:00", "Z">>],
     end |-> [dateTime |-> <<"2023-06-01", "T", "11:00:00", "Z">>],
     creator |-> [email |-> <<"ann@example.org">>],
     attendees |-> <<[email |-> <<"bob@example.org">>, responseStatus |-> <<"accepted">>]>>]

EvAllDay ==
    [id |-> <<"e2">>, start |-> [date |-> <<"2023-06-02">>], end |-> [date |-> <<"2023-06-02">>],
     recurrence |-> <<"RRULE:FREQ=DAILY">>, status |-> <<"tentative">>]

EvUnparseable ==
    [id |-> <<"e3">>, summary |-> <<"Broken">>,
     start |-> [dateTime |-> <<"2023-06-01", "T", "25:00:00", "Z">>],
     end |-> [dateTime |-> <<"T">>]]

EvInstance ==
    [id |-> <<"e4">>, status |-> <<"cancelled">>,
     start |-> [dateTime |-> <<"2023-06-01", "T", "15:30:00", "+02:00">>],
     originalStartTime |-> [dateTime |-> <<"2023-06-01", "T", "15:30:00", "+02:00">>]]

EventSamples == {EvTimed, EvAllDay, EvUnparseable, EvInstance}

\* bodies of an events list: with and without a next page
ListBodies ==
    {[items |-> s] : s \in SeqsUpTo(EventSamples, MaxItems)}
    \cup {[items |-> s, nextPageToken |-> <<"tok1">>, summary |-> <<"Work">>,
           timeZone |-> <<"UTC">>] : s \in SeqsUpTo(EventSamples, MaxItems)}

ErrorBody == [error |-> [message |-> <<"Not Found">>]]

\* JSON objects the server may answer operation o with
BodiesFor(o) ==
    IF o \in {"get_today_events", "list_events", "get_event_instances"}
    THEN ListBodies \cup {EmptyDict}
    ELSE IF o \in {"get_event", "quick_add_event"}
    THEN EventSamples \cup {EmptyDict}
    ELSE {EmptyDict, EvTimed, [items |-> <<EvTimed>>]}

\* HTTP responses: a JSON object, an empty body ("No Content"), or an error
Responses(o) ==
    {[status |-> 200, content |-> "json", json |-> b] : b \in BodiesFor(o)}
    \cup {[status |-> s, content |-> "empty", json |-> EmptyDict] : s \in {200, 204, 302, 404, 500}}
    \cup {[status |-> s, content |-> "json", json |-> ErrorBody] : s \in {404, 500}}

(***************************** the calls ***********************************)
NoClock == [date |-> 0, time |-> "-"]

\* the call raises before any request is sent
Fail(o, a, now, exc) ==
    /\ pc' = "done"
    /\ op' = o
    /\ args' = a
    /\ clock' = now
    /\ requests' = <<>>
    /\ response' = NoResponse
    /\ parsed' = FALSE
    /\ outcome' = exc
    /\ result' = NoResult
    /\ UNCHANGED <<base_url, base_api_url, prev, threads, pager, dt_arg, dt_ret>>

SendCaching(o, a, now, req) ==
    /\ pc' = "waiting"
    /\ op' = o
    /\ args' = a
    /\ clock' = now
    /\ requests' = HttpCall(req)
    /\ response' = NoResponse
    /\ parsed' = FALSE
    /\ outcome' = "none"
    /\ result' = NoResult
    /\ base_url' = req.url
    /\ UNCHANGED <<base_api_url, prev, threads, pager, dt_arg, dt_ret>>

\* the call sends its request and waits for the response
Send(o, a, now, req) ==
    /\ pc' = "waiting"
    /\ op' = o
    /\ args' = a
    /\ clock' = now
    /\ requests' = HttpCall(req)
    /\ response' = NoResponse
    /\ parsed' = FALSE
    /\ outcome' = "none"
    /\ result' = NoResult
    /\ UNCHANGED <<base_url, base_api_url, prev, threads, pager, dt_arg, dt_ret>>

\* raise ValueError("Missing required parameter '<name>'")
MissingParameter(name) == "ValueError: Missing required parameter '" \o name \o "'"

\* a generated operation: the `is None` checks in order, then the request
Generated(o, a, checks, req) ==
    IF \E i \in 1..Len(checks) : a[checks[i]] = PyNone
    THEN LET i == CHOOSE i \in 1..Len(checks) :
                     a[checks[i]] = PyNone /\ \A j \in 1..(i - 1) : a[checks[j]] # PyNone
         IN Fail(o, a, NoClock, MissingParameter(checks[i]))
    ELSE Send(o, a, NoClock, req)

get_today_events ==
    /\ pc = "idle"
    /\ \E a \in get_today_events_args, now \in Clocks :
          IF DateOverflows(now.date, a.days.n)
          THEN Fail("get_today_events", a, now, "OverflowError")
          ELSE Send("get_today_events", a, now, get_today_events_request(a, now))

get_event_cached ==
    /\ pc = "idle"
    /\ \E a \in get_event_args :
          IF prev = [op |-> "get_event", args |-> a]
          THEN Fail("get_event", a, NoClock, "returned")
          ELSE Send("get_event", a, NoClock, get_event_request(a))

get_event ==
    /\ pc = "idle"
    /\ \E a \in get_event_args : Send("get_event", a, NoClock, get_event_request(a))

list_events ==
    /\ pc = "idle"
    /\ \E a \in list_events_args, now \in Clocks :
          Send("list_events", a, IF Truthy(a.time_min) THEN NoClock ELSE now,
               list_events_request(a, now))

quick_add_event ==
    /\ pc = "idle"
    /\ \E a \in quick_add_event_args :
          Send("quick_add_event", a, NoClock, quick_add_event_request(a))

get_event_instances ==
    /\ pc = "idle"
    /\ \E a \in get_event_instances_args :
          Send("get_event_instances", a, NoClock, get_event_instances_request(a))


(************************ concurrent callers *******************************)
\* the callers sharing the one GoogleCalendarApp instance
Callers == {"A", "B"}

\* a caller with no call in progress
NoFrame ==
    [pc |-> "idle", op |-> "-", args |-> EmptyDict, clock |-> NoClock, requests |-> <<>>,
     response |-> NoResponse, outcome |-> "none", result |-> NoResult]

(************************* a caller paging *********************************)
\* no listing is being paged through
NoPager ==
    [pc |-> "none", op |-> "-", pages |-> <<>>, args |-> EmptyDict, requests |-> <<>>,
     outcome |-> "none", result |-> NoResult, shown |-> {}]

(***************************** list_tools **********************************)
list_tools_repeating ==
    <<"get_event", "get_event", "get_today_events", "list_events", "quick_add_event",
      "get_event_instances", "get_access_control_rule", "update_access_control_rule",
      "delete_access_control_rule", "patch_access_control_rule",
      "return_access_control_rules", "insert_access_control_rule",
      "watch_access_control_rules", "delete_event", "insert_event", "move_event",
      "return_events_from_calendar", "watch_events", "get_calendar", "update_calendar",
      "delete_calendar", "patch_calendar", "clear_calendar", "calendar",
      "get_calendar_list", "update_calendar_list", "remove_calendar_on_list",
      "patch_calendar_list", "insert_calendar_on_list", "list_calendars",
      "watch_calendar_list", "list_calendar_settings", "get_calendar_settings",
      "watch_calendar_settings", "stop_calendar_channel", "get_calendar_colors">>

\* list_tools(): the methods returned, in order
list_tools ==
    <<"get_event", "get_today_events", "list_events", "quick_add_event",
      "get_event_instances", "get_access_control_rule", "update_access_control_rule",
      "delete_access_control_rule", "patch_access_control_rule",
      "return_access_control_rules", "insert_access_control_rule",
      "watch_access_control_rules", "delete_event", "insert_event", "move_event",
      "return_events_from_calendar", "watch_events", "get_calendar", "update_calendar",
      "delete_calendar", "patch_calendar", "clear_calendar", "calendar",
      "get_calendar_list", "update_calendar_list", "remove_calendar_on_list",
      "patch_calendar_list", "insert_calendar_on_list", "list_calendars",
      "watch_calendar_list", "list_calendar_settings", "get_calendar_settings",
      "watch_calendar_settings", "stop_calendar_channel", "get_calendar_colors",
      "query_free_busy">>

\* the methods the class defines, in order
Methods ==
    <<"__init__", "_format_datetime", "get_today_events", "get_event", "list_events",
      "quick_add_event", "get_event_instances", "get_access_control_rule",
      "update_access_control_rule", "delete_access_control_rule",
      "patch_access_control_rule", "return_access_control_rules",
      "insert_access_control_rule", "watch_access_control_rules", "delete_event",
      "insert_event", "move_event", "return_events_from_calendar", "watch_events",
      "get_calendar", "update_calendar", "delete_calendar", "patch_calendar",
      "clear_calendar", "calendar", "get_calendar_list", "update_calendar_list",
      "remove_calendar_on_list", "patch_calendar_list", "insert_calendar_on_list",
      "list_calendars", "watch_calendar_list", "list_calendar_settings",
      "get_calendar_settings", "watch_calendar_settings", "stop_calendar_channel",
      "get_calendar_colors", "query_free_busy", "list_tools">>

\* the methods whose name starts with an underscore
Helpers == {"__init__", "_format_datetime"}
get_access_control_rule ==
    /\ pc = "idle"
    /\ \E a \in GeneratedArgs(<<"calendarId", "ruleId">>,
                              <<"alt", "fields", "key", "oauth_token", "prettyPrint",
                                "quotaUser", "userIp">>) :
          Generated("get_access_control_rule", a, <<"calendarId", "ruleId">>, get_access_control_rule_request(a))

update_access_control_rule ==
    /\ pc = "idle"
    /\ \E a \in GeneratedArgs(<<"calendarId", "ruleId">>,
                              <<"sendNotifications", "alt", "fields", "key", "oauth_token",
                                "prettyPrint", "quotaUser", "userIp", "etag", "id", "kind",
                                "role", "scope">>) :
          Generated("update_access_control_rule", a, <<"calendarId", "ruleId">>, update_access_control_rule_request(a))

delete_access_control_rule ==
    /\ pc = "idle"
    /\ \E a \in GeneratedArgs(<<"calendarId", "ruleId">>,
                              <<"alt", "fields", "key", "oauth_token", "prettyPrint",
                                "quotaUser", "userIp">>) :
          Generated("delete_access_control_rule", a, <<"calendarId", "ruleId">>, delete_access_control_rule_request(a))

patch_access_control_rule ==
    /\ pc = "idle"
    /\ \E a \in GeneratedArgs(<<"calendarId", "ruleId">>,
                              <<"sendNotifications", "alt", "fields", "key", "oauth_token",
                                "prettyPrint", "quotaUser", "userIp", "etag", "id", "kind",
                                "role", "scope">>) :
          Generated("patch_access_control_rule", a, <<"calendarId", "ruleId">>, patch_access_control_rule_request(a))

return_access_control_rules ==
    /\ pc = "idle"
    /\ \E a \in GeneratedArgs(<<"calendarId">>,
                              <<"maxResults", "pageToken", "showDeleted", "syncToken",
                                "alt", "fields", "key", "oauth_token", "prettyPrint",
                                "quotaUser", "userIp">>) :
          Generated("return_access_control_rules", a, <<"calendarId">>, return_access_control_rules_request(a))

insert_access_control_rule ==
    /\ pc = "idle"
    /\ \E a \in GeneratedArgs(<<"calendarId">>,
                              <<"sendNotifications", "alt", "fields", "key", "oauth_token",
                                "prettyPrint", "quotaUser", "userIp", "etag", "id", "kind",
                                "role", "scope">>) :
          Generated("insert_access_control_rule", a, <<"calendarId">>, insert_access_control_rule_request(a))

watch_access_control_rules ==
    /\ pc = "idle"
    /\ \E a \in GeneratedArgs(<<"calendarId">>,
                              <<"maxResults", "pageToken", "showDeleted", "syncToken",
                                "alt", "fields", "key", "oauth_token", "prettyPrint",
                                "quotaUser", "userIp", "address", "expiration", "id",
                                "kind", "params", "payload", "resourceId", "resourceUri",
                                "token", "type">>) :
          Generated("watch_access_control_rules", a, <<"calendarId">>, watch_access_control_rules_request(a))

delete_event ==
    /\ pc = "idle"
    /\ \E a \in GeneratedArgs(<<"calendarId", "eventId">>,
                              <<"sendNotifications", "sendUpdates", "alt", "fields", "key",
                                "oauth_token", "prettyPrint", "quotaUser", "userIp">>) :
          Generated("delete_event", a, <<"calendarId", "eventId">>, delete_event_request(a))

insert_event ==
    /\ pc = "idle"
    /\ \E a \in GeneratedArgs(<<"calendarId", "eventId">>,
                              <<"alwaysIncludeEmail", "maxAttendees", "maxResults",
                                "originalStart", "pageToken", "showDeleted", "timeMax",
                                "timeMin", "timeZone", "alt", "fields", "key",
                                "oauth_token", "prettyPrint", "quotaUser", "userIp">>) :
          Generated("insert_event", a, <<"calendarId", "eventId">>, insert_event_request(a))

move_event ==
    /\ pc = "idle"
    /\ \E a \in GeneratedArgs(<<"calendarId", "eventId">>,
                              <<"destination", "sendNotifications", "sendUpdates", "alt",
                                "fields", "key", "oauth_token", "prettyPrint", "quotaUser",
                                "userIp">>) :
          Generated("move_event", a, <<"calendarId", "eventId">>, move_event_request(a))

return_events_from_calendar ==
    /\ pc = "idle"
    /\ \E a \in GeneratedArgs(<<"calendarId">>,
                              <<"alwaysIncludeEmail", "eventTypes", "iCalUID",
                                "maxAttendees", "maxResults", "orderBy", "pageToken",
                                "privateExtendedProperty", "q", "sharedExtendedProperty",
                                "showDeleted", "showHiddenInvitations", "singleEvents",
                                "syncToken", "timeMax", "timeMin", "timeZone",
                                "updatedMin", "alt", "fields", "key", "oauth_token",
                                "prettyPrint", "quotaUser", "userIp">>) :
          Generated("return_events_from_calendar", a, <<"calendarId">>, return_events_from_calendar_request(a))

watch_events ==
    /\ pc = "idle"
    /\ \E a \in GeneratedArgs(<<"calendarId">>,
                              <<"alwaysIncludeEmail", "eventTypes", "iCalUID",
                                "maxAttendees", "maxResults", "orderBy", "pageToken",
                                "privateExtendedProperty", "q", "sharedExtendedProperty",
                                "showDeleted", "showHiddenInvitations", "singleEvents",
                                "syncToken", "timeMax", "timeMin", "timeZone",
                                "updatedMin", "alt", "fields", "key", "oauth_token",
                                "prettyPrint", "quotaUser", "userIp", "address",
                                "expiration", "id", "kind", "params", "payload",
                                "resourceId", "resourceUri", "token", "type">>) :
          Generated("watch_events", a, <<"calendarId">>, watch_events_request(a))

get_calendar ==
    /\ pc = "idle"
    /\ \E a \in GeneratedArgs(<<"calendarId">>,
                              <<"alt", "fields", "key", "oauth_token", "prettyPrint",
                                "quotaUser", "userIp">>) :
          Generated("get_calendar", a, <<"calendarId">>, get_calendar_request(a))

update_calendar ==
    /\ pc = "idle"
    /\ \E a \in GeneratedArgs(<<"calendarId">>,
                              <<"alt", "fields", "key", "oauth_token", "prettyPrint",
                                "quotaUser", "userIp", "conferenceProperties",
                                "description", "etag", "id", "kind", "location", "summary",
                                "timeZone">>) :
          Generated("update_calendar", a, <<"calendarId">>, update_calendar_request(a))

delete_calendar ==
    /\ pc = "idle"
    /\ \E a \in GeneratedArgs(<<"calendarId">>,
                              <<"alt", "fields", "key", "oauth_token", "prettyPrint",
                                "quotaUser", "userIp">>) :
          Generated("delete_calendar", a, <<"calendarId">>, delete_calendar_request(a))

patch_calendar ==
    /\ pc = "idle"
    /\ \E a \in GeneratedArgs(<<"calendarId">>,
                              <<"alt", "fields", "key", "oauth_token", "prettyPrint",
                                "quotaUser", "userIp", "conferenceProperties",
                                "description", "etag", "id", "kind", "location", "summary",
                                "timeZone">>) :
          Generated("patch_calendar", a, <<"calendarId">>, patch_calendar_request(a))

clear_calendar ==
    /\ pc = "idle"
    /\ \E a \in GeneratedArgs(<<"calendarId">>,
                              <<"alt", "fields", "key", "oauth_token", "prettyPrint",
                                "quotaUser", "userIp">>) :
          Generated("clear_calendar", a, <<"calendarId">>, clear_calendar_request(a))

calendar ==
    /\ pc = "idle"
    /\ \E a \in GeneratedArgs(<<>>,
                              <<"alt", "fields", "key", "oauth_token", "prettyPrint",
                                "quotaUser", "userIp", "conferenceProperties",
                                "description", "etag", "id", "kind", "location", "summary",
                                "timeZone">>) :
          Generated("calendar", a, <<>>, calendar_request(a))

get_calendar_list ==
    /\ pc = "idle"
    /\ \E a \in GeneratedArgs(<<"calendarId">>,
                              <<"alt", "fields", "key", "oauth_token", "prettyPrint",
                                "quotaUser", "userIp">>) :
          Generated("get_calendar_list", a, <<"calendarId">>, get_calendar_list_request(a))

update_calendar_list ==
    /\ pc = "idle"
    /\ \E a \in GeneratedArgs(<<"calendarId">>,
                              <<"colorRgbFormat", "alt", "fields", "key", "oauth_token",
                                "prettyPrint", "quotaUser", "userIp", "accessRole",
                                "backgroundColor", "colorId", "conferenceProperties",
                                "defaultReminders", "deleted", "description", "etag",
                                "foregroundColor", "hidden", "id", "kind", "location",
                                "notificationSettings", "primary", "selected", "summary",
                                "summaryOverride", "timeZone">>) :
          Generated("update_calendar_list", a, <<"calendarId">>, update_calendar_list_request(a))

remove_calendar_on_list ==
    /\ pc = "idle"
    /\ \E a \in GeneratedArgs(<<"calendarId">>,
                              <<"alt", "fields", "key", "oauth_token", "prettyPrint",
                                "quotaUser", "userIp">>) :
          Generated("remove_calendar_on_list", a, <<"calendarId">>, remove_calendar_on_list_request(a))

patch_calendar_list ==
    /\ pc = "idle"
    /\ \E a \in GeneratedArgs(<<"calendarId">>,
                              <<"colorRgbFormat", "alt", "fields", "key", "oauth_token",
                                "prettyPrint", "quotaUser", "userIp", "accessRole",
                                "backgroundColor", "colorId", "conferenceProperties",
                                "defaultReminders", "deleted", "description", "etag",
                                "foregroundColor", "hidden", "id", "kind", "location",
                                "notificationSettings", "primary", "selected", "summary",
                                "summaryOverride", "timeZone">>) :
          Generated("patch_calendar_list", a, <<"calendarId">>, patch_calendar_list_request(a))

insert_calendar_on_list ==
    /\ pc = "idle"
    /\ \E a \in GeneratedArgs(<<>>,
                              <<"colorRgbFormat", "alt", "fields", "key", "oauth_token",
                                "prettyPrint", "quotaUser", "userIp", "accessRole",
                                "backgroundColor", "colorId", "conferenceProperties",
                                "defaultReminders", "deleted", "description", "etag",
                                "foregroundColor", "hidden", "id", "kind", "location",
                                "notificationSettings", "primary", "selected", "summary",
                                "summaryOverride", "timeZone">>) :
          Generated("insert_calendar_on_list", a, <<>>, insert_calendar_on_list_request(a))

list_calendars ==
    /\ pc = "idle"
    /\ \E a \in GeneratedArgs(<<"userId">>,
                              <<"maxResults", "minAccessRole", "pageToken", "showDeleted",
                                "showHidden", "syncToken", "alt", "fields", "key",
                                "oauth_token", "prettyPrint", "quotaUser", "userIp">>) :
          Generated("list_calendars", a, <<"userId">>, list_calendars_request(a))

watch_calendar_list ==
    /\ pc = "idle"
    /\ \E a \in GeneratedArgs(<<>>,
                              <<"maxResults", "minAccessRole", "pageToken", "showDeleted",
                                "showHidden", "syncToken", "alt", "fields", "key",
                                "oauth_token", "prettyPrint", "quotaUser", "userIp",
                                "address", "expiration", "id", "kind", "params", "payload",
                                "resourceId", "resourceUri", "token", "type">>) :
          Generated("watch_calendar_list", a, <<>>, watch_calendar_list_request(a))

list_calendar_settings ==
    /\ pc = "idle"
    /\ \E a \in GeneratedArgs(<<>>,
                              <<"maxResults", "pageToken", "syncToken", "alt", "fields",
                                "key", "oauth_token", "prettyPrint", "quotaUser", "userIp">>) :
          Generated("list_calendar_settings", a, <<>>, list_calendar_settings_request(a))

get_calendar_settings_unchecked ==
    /\ pc = "idle"
    /\ \E a \in GeneratedArgs(<<"setting">>,
                              <<"alt", "fields", "key", "oauth_token", "prettyPrint",
                                "quotaUser", "userIp">>) :
          Generated("get_calendar_settings", a, <<>>, get_calendar_settings_request(a))

get_calendar_settings ==
    /\ pc = "idle"
    /\ \E a \in GeneratedArgs(<<"setting">>,
                              <<"alt", "fields", "key", "oauth_token", "prettyPrint",
                                "quotaUser", "userIp">>) :
          Generated("get_calendar_settings", a, <<"setting">>, get_calendar_settings_request(a))

watch_calendar_settings ==
    /\ pc = "idle"
    /\ \E a \in GeneratedArgs(<<>>,
                              <<"maxResults", "pageToken", "syncToken", "alt", "fields",
                                "key", "oauth_token", "prettyPrint", "quotaUser", "userIp",
                                "address", "expiration", "id", "kind", "params", "payload",
                                "resourceId", "resourceUri", "token", "type">>) :
          Generated("watch_calendar_settings", a, <<>>, watch_calendar_settings_request(a))

stop_calendar_channel ==
    /\ pc = "idle"
    /\ \E a \in GeneratedArgs(<<>>,
                              <<"alt", "fields", "key", "oauth_token", "prettyPrint",
                                "quotaUser", "userIp", "address", "expiration", "id",
                                "kind", "params", "payload", "resourceId", "resourceUri",
                                "token", "type">>) :
          Generated("stop_calendar_channel", a, <<>>, stop_calendar_channel_request(a))

get_calendar_colors ==
    /\ pc = "idle"
    /\ \E a \in GeneratedArgs(<<>>,
                              <<"alt", "fields", "key", "oauth_token", "prettyPrint",
                                "quotaUser", "userIp">>) :
          Generated("get_calendar_colors", a, <<>>, get_calendar_colors_request(a))

query_free_busy ==
    /\ pc = "idle"
    /\ \E a \in GeneratedArgs(<<>>,
                              <<"alt", "fields", "key", "oauth_token", "prettyPrint",
                                "quotaUser", "userIp", "calendarExpansionMax",
                                "groupExpansionMax", "items", "timeMax", "timeMin",
                                "timeZone">>) :
          Generated("query_free_busy", a, <<>>, query_free_busy_request(a))

(************************** the response ***********************************)
\* response.json() raises JSONDecodeError on a body that is not JSON
json_fails(r) == r.content # "json"

\* what the operation makes of the parsed body
Format(o, a, json) ==
    CASE o = "get_today_events" -> get_today_events_result(a, json)
      [] o = "get_event" -> get_event_result(a, json)
      [] o = "list_events" -> list_events_result(a, json)
      [] o = "quick_add_event" -> quick_add_event_result(a, json)
      [] o = "get_event_instances" -> get_event_instances_result(a, json)
      [] OTHER -> Return([t |-> "json", v |-> json])

\* the response arrives: response.raise_for_status(), response.json(), the result
Deliver ==
    /\ pc = "waiting"
    /\ \E r \in Responses(op) :
          LET raised == raise_for_status(r.status)
              fin == IF raised THEN Raise("HTTPError")
                     ELSE IF json_fails(r) THEN Raise("JSONDecodeError")
                     ELSE Format(op, args, r.json)
          IN /\ response' = r
             /\ parsed' = ~raised
             /\ outcome' = fin.outcome
             /\ result' = fin.result
    /\ pc' = "done"
    /\ UNCHANGED <<base_url, base_api_url, op, args, clock, requests, prev, threads, pager, dt_arg,
                   dt_ret>>

\* no call came before
NoCall == [op |-> "-", args |-> EmptyDict]

\* the calls the history keeps: get_event with no optional argument
Remembered(o, a) == o = "get_event" /\ a.max_attendees = PyNone /\ a.time_zone = PyNone

\* the caller takes the result or the exception; the adapter is ready for the next call
Finish ==
    /\ pc = "done"
    /\ pc' = "idle"
    /\ op' = "-"
    /\ args' = EmptyDict
    /\ clock' = NoClock
    /\ requests' = <<>>
    /\ response' = NoResponse
    /\ parsed' = FALSE
    /\ outcome' = "none"
    /\ result' = NoResult
    /\ prev' = IF Remembered(op, args) THEN [op |-> op, args |-> args] ELSE NoCall
    /\ UNCHANGED <<base_url, base_api_url, threads, pager, dt_arg, dt_ret>>

\* GoogleCalendarApp.__init__
Init ==
    /\ base_api_url = BaseApiUrl
    /\ base_url = BaseUrl
    /\ pc = "idle"
    /\ op = "-"
    /\ args = EmptyDict
    /\ clock = NoClock
    /\ requests = <<>>
    /\ response = NoResponse
    /\ parsed = FALSE
    /\ outcome = "none"
    /\ result = NoResult
    /\ prev = NoCall
    /\ threads = [t \in Callers |-> NoFrame]
    /\ pager = NoPager
    /\ dt_arg = PyNone
    /\ dt_ret = NoResult

Next ==
    \/ get_today_events
    \/ get_event
    \/ list_events
    \/ quick_add_event
    \/ get_event_instances
    \/ get_access_control_rule
    \/ update_access_control_rule
    \/ delete_access_control_rule
    \/ patch_access_control_rule
    \/ return_access_control_rules
    \/ insert_access_control_rule
    \/ watch_access_control_rules
    \/ delete_event
    \/ insert_event
    \/ move_event
    \/ return_events_from_calendar
    \/ watch_events
    \/ get_calendar
    \/ update_calendar
    \/ delete_calendar
    \/ patch_calendar
    \/ clear_calendar
    \/ calendar
    \/ get_calendar_list
    \/ update_calendar_list
    \/ remove_calendar_on_list
    \/ patch_calendar_list
    \/ insert_calendar_on_list
    \/ list_calendars
    \/ watch_calendar_list
    \/ list_calendar_settings
    \/ get_calendar_settings
    \/ watch_calendar_settings
    \/ stop_calendar_channel
    \/ get_calendar_colors
    \/ query_free_busy
    \/ Deliver
    \/ Finish

Spec == Init /\ [][Next]_vars


(********************** interleaved calls on one instance ******************)
\* the calls the concurrent callers make
ConcurrentCalls ==
    {[op |-> "get_event", args |-> a] :
        a \in {x \in get_event_args : x.max_attendees = PyNone /\ x.time_zone = PyNone}}
    \cup {[op |-> "update_access_control_rule",
           args |-> [n \in {"calendarId", "ruleId", "sendNotifications", "alt", "fields", "key",
                            "oauth_token", "prettyPrint", "quotaUser", "userIp", "etag", "id",
                            "kind", "role", "scope"} |->
                        IF n = "calendarId" THEN c ELSE IF n = "ruleId" THEN r
                        ELSE IF n = "role" THEN ro ELSE PyNone]] :
            c \in PathVals, r \in PathVals, ro \in {PyNone, PyStr(<<"owner">>)}}

\* the `is None` checks of operation o, in order
RequiredOf(o) ==
    IF o = "update_access_control_rule" THEN <<"calendarId", "ruleId">> ELSE <<>>

FrameShared(t) == threads[CHOOSE u \in Callers : threads[u].pc # "idle"]

\* the locals of caller t's invocation: the arguments it was called with
Frame(t) == threads[t]

\* caller t enters an operation: its arguments are bound
Enter(t) ==
    /\ threads[t].pc = "idle"
    /\ \E c \in ConcurrentCalls :
          threads' = [threads EXCEPT ![t] = [NoFrame EXCEPT !.pc = "called", !.op = c.op,
                                                            !.args = c.args]]
    /\ UNCHANGED <<base_url, base_api_url, call_vars, format_vars, pager>>

\* caller t runs the checks, builds its request from its locals and sends it
Request(t) ==
    /\ threads[t].pc = "called"
    /\ LET f == Frame(t)
           checks == RequiredOf(f.op)
       IN IF \E i \in 1..Len(checks) : f.args[checks[i]] = PyNone
          THEN LET i == CHOOSE i \in 1..Len(checks) :
                           f.args[checks[i]] = PyNone
                           /\ \A j \in 1..(i - 1) : f.args[checks[j]] # PyNone
               IN threads' = [threads EXCEPT ![t].pc = "done",
                                             ![t].outcome = MissingParameter(checks[i])]
          ELSE threads' = [threads EXCEPT ![t].pc = "waiting",
                                          ![t].requests = HttpCall(RequestOf(f.op, f.args, NoClock))]
    /\ UNCHANGED <<base_url, base_api_url, call_vars, format_vars, pager>>

\* caller t's response arrives: raise_for_status(), json(), the result
Respond(t) ==
    /\ threads[t].pc = "waiting"
    /\ \E r \in Responses(threads[t].op) :
          LET f == Frame(t)
              fin == IF raise_for_status(r.status) THEN Raise("HTTPError")
                     ELSE IF json_fails(r) THEN Raise("JSONDecodeError")
                     ELSE Format(f.op, f.args, r.json)
          IN threads' = [threads EXCEPT ![t].pc = "done", ![t].response = r,
                                        ![t].outcome = fin.outcome, ![t].result = fin.result]
    /\ UNCHANGED <<base_url, base_api_url, call_vars, format_vars, pager>>

\* caller t takes its result or exception
Leave(t) ==
    /\ threads[t].pc = "done"
    /\ threads' = [threads EXCEPT ![t] = NoFrame]
    /\ UNCHANGED <<base_url, base_api_url, call_vars, format_vars, pager>>

NextConcurrent ==
    \/ \E t \in Callers : Enter(t)
    \/ \E t \in Callers : Request(t)
    \/ \E t \in Callers : Respond(t)
    \/ \E t \in Callers : Leave(t)

\* several callers on one instance, their steps interleaved arbitrarily
SpecConcurrent == Init /\ [][NextConcurrent]_vars

(********************* _format_datetime on its own *************************)
\* the letters of the strings _format_datetime is called with
DtTokens == {"2023-06-01", "2023-12-31", "T", "00:05:00", "12:30:00", "15:30:00", "25:00:00",
             "Z", "+02:00", "Unknown", "noon"}

\* the arguments: None, or a string of at most MaxDtLen letters
DtStrings == {PyNone} \cup {PyStr(s) : s \in SeqsUpTo(DtTokens, MaxDtLen)}

\* _format_datetime(v): `not dt_string` holds for None and for the empty string
format_datetime(v) == IF ~Truthy(v) THEN <<"Unknown">> ELSE _format_datetime(v.s)

\* a caller passes v
CallFormat ==
    /\ dt_ret = NoResult
    /\ \E v \in DtStrings : dt_arg' = v /\ dt_ret' = PyStr(format_datetime(v))
    /\ UNCHANGED <<base_url, base_api_url, call_vars, threads, pager>>

\* the caller takes the string returned
ReturnFormat ==
    /\ dt_ret # NoResult
    /\ dt_arg' = PyNone
    /\ dt_ret' = NoResult
    /\ UNCHANGED <<base_url, base_api_url, call_vars, threads, pager>>

NextFormat == CallFormat \/ ReturnFormat

SpecFormat == Init /\ [][NextFormat]_vars

(******************* paging through list_events ****************************)
\* the token the server gives for its page i
Token(i) == <<"tok" \o ToString(i)>>

\* the server's answer to a listing request: the page the pageToken names (the first page
\* without one), with a nextPageToken unless it is the last page
ServerResponse(pages, req) ==
    LET i == IF "pageToken" \in DOMAIN req.params
             THEN CHOOSE k \in 1..Len(pages) : Token(k) = req.params.pageToken.s
             ELSE 1
    IN [status |-> 200, content |-> "json",
        json |-> IF i < Len(pages)
                 THEN [items |-> pages[i], nextPageToken |-> Token(i + 1)]
                 ELSE [items |-> pages[i]]]

\* the arguments of the caller's next call: the defaults, and the page token it holds
PagingArgs(o, token) ==
    IF o = "list_events"
    THEN [list_events_defaults EXCEPT !.page_token = token]
    ELSE [k \in DOMAIN get_event_instances_defaults \cup {"event_id"} |->
             IF k = "event_id" THEN PyStr(<<"e1">>)
             ELSE IF k = "page_token" THEN token
             ELSE get_event_instances_defaults[k]]

\* the ids of the events a result shows
ShownIds(o, s) ==
    {e.id : e \in {x \in EventSamples :
        Occurs(<<IF o = "list_events" THEN "   ID: " ELSE "   Instance ID: ">> \o x.id
               \o <<"\n">>, s)}}

\* the server holds a listing of some pages; a caller sets out to read all of it
PageSetup ==
    /\ pager.pc = "none"
    /\ \E o \in {"list_events", "get_event_instances"},
          ps \in SeqsUpTo({<<>>, <<EvTimed>>, <<EvAllDay, EvInstance>>}, MaxPages) \ {<<>>} :
          pager' = [NoPager EXCEPT !.pc = "idle", !.op = o, !.pages = ps,
                                   !.args = PagingArgs(o, PyNone)]
    /\ UNCHANGED <<base_url, base_api_url, call_vars, threads, format_vars>>

\* the caller calls the operation with the page token it holds
PageCall ==
    /\ pager.pc = "idle"
    /\ \E now \in Clocks :
          pager' = [pager EXCEPT !.pc = "waiting",
                                 !.requests = HttpCall(RequestOf(pager.op, pager.args, now))]
    /\ UNCHANGED <<base_url, base_api_url, call_vars, threads, format_vars>>

\* the server's page arrives: raise_for_status(), json(), the formatted result
PageServe ==
    /\ pager.pc = "waiting"
    /\ LET r == ServerResponse(pager.pages, pager.requests[1])
           fin == IF raise_for_status(r.status) THEN Raise("HTTPError")
                  ELSE IF json_fails(r) THEN Raise("JSONDecodeError")
                  ELSE Format(pager.op, pager.args, r.json)
       IN pager' = [pager EXCEPT !.pc = "done", !.outcome = fin.outcome, !.result = fin.result]
    /\ UNCHANGED <<base_url, base_api_url, call_vars, threads, format_vars>>

\* the caller reads the result: the events shown, and the page_token='...' if one is shown;
\* with a token it goes on, without one it stops
PageRead ==
    /\ pager.pc = "done"
    /\ LET s == pager.result.s
           seen == pager.shown \cup ShownIds(pager.op, s)
       IN IF \E i \in 1..Len(s) : s[i] = "page_token='"
          THEN LET i == CHOOSE i \in 1..Len(s) : s[i] = "page_token='"
               IN pager' = [pager EXCEPT !.pc = "idle", !.shown = seen, !.requests = <<>>,
                                         !.outcome = "none", !.result = NoResult,
                                         !.args = PagingArgs(pager.op, PyStr(<<s[i + 1]>>))]
          ELSE pager' = [pager EXCEPT !.pc = "stopped", !.shown = seen]
    /\ UNCHANGED <<base_url, base_api_url, call_vars, threads, format_vars>>

NextPaging == PageSetup \/ PageCall \/ PageServe \/ PageRead

\* one caller paging through one listing
SpecPaging == Init /\ [][NextPaging]_vars
(***************************************************************************)
(* Properties                                                              *)
(***************************************************************************)
\* the names the operations announce their verb with
NamedGet == {"get_today_events", "get_event", "list_events", "get_event_instances",
    "get_access_control_rule", "return_access_control_rules",
    "return_events_from_calendar", "get_calendar", "get_calendar_list", "list_calendars",
    "list_calendar_settings", "get_calendar_settings", "get_calendar_colors"}

NamedPut == {"update_access_control_rule", "update_calendar", "update_calendar_list"}

NamedPatch == {"patch_access_control_rule", "patch_calendar", "patch_calendar_list"}

NamedDelete == {"delete_access_control_rule", "delete_event", "delete_calendar",
    "remove_calendar_on_list"}

NamedPost == {"quick_add_event", "insert_access_control_rule",
    "watch_access_control_rules", "insert_event", "move_event", "watch_events",
    "clear_calendar", "calendar", "insert_calendar_on_list", "watch_calendar_list",
    "watch_calendar_settings", "stop_calendar_channel", "query_free_busy"}

\* every parameter name of every operation
AllParamNames == {"days", "max_results", "time_zone", "event_id", "max_attendees",
    "time_min", "time_max", "q", "order_by", "single_events", "page_token", "text",
    "send_updates", "show_deleted", "calendarId", "ruleId", "alt", "fields", "key",
    "oauth_token", "prettyPrint", "quotaUser", "userIp", "sendNotifications", "etag",
    "id", "kind", "role", "scope", "maxResults", "pageToken", "showDeleted", "syncToken",
    "address", "expiration", "params", "payload", "resourceId", "resourceUri", "token",
    "type", "eventId", "sendUpdates", "alwaysIncludeEmail", "maxAttendees",
    "originalStart", "timeMax", "timeMin", "timeZone", "destination", "eventTypes",
    "iCalUID", "orderBy", "privateExtendedProperty", "sharedExtendedProperty",
    "showHiddenInvitations", "singleEvents", "updatedMin", "conferenceProperties",
    "description", "location", "summary", "colorRgbFormat", "accessRole",
    "backgroundColor", "colorId", "defaultReminders", "deleted", "foregroundColor",
    "hidden", "notificationSettings", "primary", "selected", "summaryOverride", "userId",
    "minAccessRole", "showHidden", "setting", "calendarExpansionMax",
    "groupExpansionMax", "items"}

Invoked == pc \in {"waiting", "done"}

Success(status) == status >= 200 /\ status < 300

RequiredPathParams == {"calendarId", "ruleId", "eventId", "userId", "setting"}

MissingErrors == {MissingParameter(k) : k \in RequiredPathParams}

DateOutOfRange ==
    op = "get_today_events" /\ (clock.date + args.days.n < 1 \/ clock.date + args.days.n > 3652059)

C2_NonSuccessIsRaised ==
    (pc = "done" /\ response # NoResponse /\ ~Success(response.status)) =>
        /\ outcome = "HTTPError"
        /\ Len(requests) = 1
        /\ ~parsed
        /\ result = NoResult

C2_Witness ==
    /\ pc = "done"
    /\ op = "get_access_control_rule"
    /\ response.status = 404
    /\ outcome = "HTTPError"

\* C3: a generated operation called with a required path parameter equal to None raises
\* ValueError "Missing required parameter ..." naming such a parameter, and sends no request.
C3_GeneratedMissingPathParameter ==
    (Invoked /\ op \in GeneratedOps
       /\ \E k \in RequiredPathParams \cap DOMAIN args : args[k] = PyNone) =>
        /\ pc = "done"
        /\ outcome \in {MissingParameter(k) : k \in {n \in RequiredPathParams \cap DOMAIN args :
                                                        args[n] = PyNone}}
        /\ requests = <<>>

C3_Witness ==
    /\ pc = "done"
    /\ op = "delete_event"
    /\ args.calendarId # PyNone
    /\ args.eventId = PyNone
    /\ outcome = MissingParameter("eventId")
    /\ requests = <<>>

\* C4 as stated: the hand-written operations and move_event raise the invalid-argument error,
\* and send nothing, when their required argument (event_id, text, destination) is None.
C4_MissingRequiredAlwaysRaises ==
    (Invoked /\ ((op \in {"get_event", "get_event_instances"} /\ args.event_id = PyNone)
                 \/ (op = "quick_add_event" /\ args.text = PyNone)
                 \/ (op = "move_event" /\ args.destination = PyNone))) =>
        /\ pc = "done"
        /\ outcome \notin {"none", "returned", "HTTPError", "JSONDecodeError"}
        /\ requests = <<>>

\* C5 as stated: on a 2xx response whose body is a JSON object, the five formatting operations
\* return a string and raise nothing.
C5_OnlyDocumentedFailures ==
    (pc = "done" /\ op \in HandWritten /\ Success(response.status)
       /\ response.content = "json") =>
        /\ outcome = "returned"
        /\ result.t = "str"

\* C6 as stated: a delete operation returns normally on a 2xx response with an empty body.
C6_DeleteCompletesOnNoContent ==
    (pc = "done" /\ op \in NamedDelete /\ Success(response.status)
       /\ response.content = "empty") =>
        outcome = "returned"

\* the arguments that instantiate an operation's URL template: calendarId = "primary",
\* every other path parameter left open
TemplateArgs ==
    [k \in AllParamNames |->
        IF k = "calendarId" THEN PyStr(<<"primary">>)
        ELSE IF k \in {"ruleId", "eventId", "userId", "setting", "event_id"} THEN PyStr(<<"{}">>)
        ELSE IF k = "days" THEN PyInt(1)
        ELSE PyNone]

\* the HTTP verb and URL template of operation o
Endpoint(o) ==
    LET r == RequestOf(o, TemplateArgs, [date |-> 1, time |-> "-"])
    IN [verb |-> r.verb, url |-> r.url]

SharedEndpoints ==
    {{"get_today_events", "list_events", "return_events_from_calendar"},
     {"get_event_instances", "insert_event"}}

C8_VerbMatchesName ==
    requests # <<>> =>
        requests[1].verb = CASE op \in NamedGet -> "GET"
                             [] op \in NamedPut -> "PUT"
                             [] op \in NamedPatch -> "PATCH"
                             [] op \in NamedDelete -> "DELETE"
                             [] op \in NamedPost -> "POST"

\* C9: every request issued has a URL that starts with
\* https://www.googleapis.com/calendar/v3 and one of the five verbs.
C9_RequestsStayOnCalendarV3 ==
    \A i \in 1..Len(requests) :
        /\ Len(requests[i].url) >= 5
        /\ SubSeq(requests[i].url, 1, 5) = <<"https://www.googleapis.com", "/", "calendar", "/", "v3">>
        /\ requests[i].verb \in {"GET", "POST", "PUT", "PATCH", "DELETE"}

C9_Witness ==
    /\ pc = "waiting"
    /\ op = "query_free_busy"
    /\ requests[1].verb = "POST"
    /\ requests[1].url = <<"https://www.googleapis.com", "/", "calendar", "/", "v3", "/", "freeBusy">>

\* C10: base_url and base_api_url always hold the values the constructor set.
C10_AdapterFieldsUnchanged ==
    /\ base_url = <<"https://www.googleapis.com", "/", "calendar", "/", "v3">>
    /\ base_api_url = <<"https://www.googleapis.com", "/", "calendar", "/", "v3", "/",
                        "calendars", "/", "primary">>

C10_Witness ==
    /\ pc = "done"
    /\ outcome = "HTTPError"
    /\ op = "list_events"
    /\ base_url = <<"https://www.googleapis.com", "/", "calendar", "/", "v3">>
    /\ base_api_url = <<"https://www.googleapis.com", "/", "calendar", "/", "v3", "/",
                        "calendars", "/", "primary">>


\* C11: operations are stateless and uncached.  Whatever calls came before, the adapter holds
\* the constructor's values, a call that passed its checks has sent exactly the request its
\* own arguments (and, where it reads the clock, the current time) determine, every returned
\* value was computed from the response to that request, and a get_event call identical to
\* the call before it has sent a request of its own.
C11_StatelessUncached ==
    /\ base_url = BaseUrl /\ base_api_url = BaseApiUrl
    /\ pc = "waiting" => requests = <<RequestOf(op, args, clock)>>
    /\ (pc = "done" /\ outcome = "returned") =>
          /\ requests = <<RequestOf(op, args, clock)>>
          /\ response # NoResponse
          /\ Format(op, args, response.json) = [outcome |-> "returned", result |-> result]
    /\ (pc \in {"waiting", "done"} /\ prev = [op |-> op, args |-> args]) => Len(requests) = 1

C11_Witness ==
    /\ pc = "done"
    /\ op = "get_event"
    /\ prev = [op |-> "get_event", args |-> args]
    /\ args.event_id = PyStr(<<"e1">>)
    /\ Len(requests) = 1
    /\ response.json = EvTimed
    /\ outcome = "returned"

\* what a caller whose frame is f must hold once the response f.response has arrived
OwnOutcome(f) ==
    IF raise_for_status(f.response.status) THEN Raise("HTTPError")
    ELSE IF json_fails(f.response) THEN Raise("JSONDecodeError")
    ELSE Format(f.op, f.args, f.response.json)

\* C12: with the steps of several callers interleaved on one instance, each caller's request
\* is the one its own arguments determine (its URL ends in the caller's own event or rule id,
\* its body carries the caller's own role), and its outcome and result are the ones its own
\* response determines; a call that failed its checks sent nothing.
C12_CallsDoNotInterfere ==
    \A t \in Callers :
        LET f == threads[t]
            sent == f.pc = "waiting" \/ (f.pc = "done" /\ f.response # NoResponse)
        IN /\ sent =>
                /\ f.requests = <<RequestOf(f.op, f.args, NoClock)>>
                /\ f.op = "get_event" =>
                      f.requests[1].url = BaseApiUrl \o <<"/", "events", "/">> \o Fmt(f.args.event_id)
                /\ f.op = "update_access_control_rule" =>
                      /\ f.requests[1].url = BaseUrl \o <<"/", "calendars", "/">>
                                             \o f.args.calendarId.s \o <<"/", "acl", "/">>
                                             \o f.args.ruleId.s
                      /\ f.requests[1].data.d =
                            (IF f.args.role = PyNone THEN EmptyDict ELSE [role |-> f.args.role])
           /\ (f.pc = "done" /\ f.response # NoResponse) =>
                [outcome |-> f.outcome, result |-> f.result] = OwnOutcome(f)
           /\ (f.pc = "done" /\ f.response = NoResponse) =>
                (f.requests = <<>> /\ f.outcome \in MissingErrors)

C12_Witness ==
    /\ threads["A"].pc = "done"
    /\ threads["A"].op = "update_access_control_rule"
    /\ threads["A"].args.calendarId = PyStr(<<"c1">>)
    /\ threads["A"].outcome = "returned"
    /\ threads["B"].pc = "done"
    /\ threads["B"].op = "get_event"
    /\ threads["B"].response.json = EvAllDay
    /\ threads["B"].outcome = "returned"

\* C13: in every generated operation an argument other than a path parameter is sent exactly
\* when it is not None, under its own name, in the query parameters or in the JSON body and
\* with the caller's value unchanged (False, 0 and "" included); nothing else is sent, and
\* watch_events sends its payload in the body.
C13_GeneratedFilterByNone ==
    (pc = "waiting" /\ op \in GeneratedOps) =>
        LET p == requests[1].params
            d == IF requests[1].data = NoData THEN EmptyDict ELSE requests[1].data.d
            optional == DOMAIN args \ RequiredPathParams
        IN /\ DOMAIN p \cap DOMAIN d = {}
           /\ DOMAIN p \cup DOMAIN d \subseteq optional
           /\ \A k \in optional :
                 /\ (args[k] # PyNone) <=> (k \in DOMAIN p \cup DOMAIN d)
                 /\ k \in DOMAIN p => p[k] = args[k]
                 /\ k \in DOMAIN d => d[k] = args[k]
           /\ (op = "watch_events" /\ args.payload # PyNone) => "payload" \in DOMAIN d
           /\ (op = "query_free_busy" /\ args.timeMin # PyNone) => "timeMin" \in DOMAIN d

C13_Witness ==
    /\ pc = "waiting"
    /\ op = "watch_events"
    /\ args.payload = PyBool(FALSE)
    /\ requests[1].data.d = [payload |-> PyBool(FALSE)]
    /\ requests[1].params = EmptyDict

\* the query parameter each optional argument of a hand-written operation is sent as
KeyOf ==
    [time_zone |-> "timeZone", q |-> "q", time_min |-> "timeMin", time_max |-> "timeMax",
     page_token |-> "pageToken", max_attendees |-> "maxAttendees", max_results |-> "maxResults"]

FilteringOps == {"get_event", "get_today_events", "list_events", "get_event_instances"}

\* C14 as stated: in get_event, get_today_events, list_events and get_event_instances every
\* optional argument that is not None (the empty string and 0 included) is sent as its query
\* parameter with the caller's value.
C14_HandWrittenFilterByNone ==
    (pc = "waiting" /\ op \in FilteringOps) =>
        \A k \in DOMAIN args \cap DOMAIN KeyOf :
            args[k] # PyNone =>
                /\ KeyOf[k] \in DOMAIN requests[1].params
                /\ requests[1].params[KeyOf[k]] = args[k]

\* C14 amended: the integer arguments are filtered by None only (max_attendees, and
\* max_results of get_today_events, are sent exactly when not None, 0 included; max_results of
\* list_events and get_event_instances is always sent), while the string arguments time_zone,
\* q, time_min, time_max and page_token are sent, unchanged, exactly when they are neither
\* None nor the empty string; list_events always sends timeMin, the current UTC time taking
\* the place of a time_min that is None or empty.
C14_HandWrittenFilterByTruth ==
    (pc = "waiting" /\ op \in FilteringOps) =>
        LET p == requests[1].params
        IN \A k \in DOMAIN args \cap DOMAIN KeyOf :
              LET sent == KeyOf[k] \in DOMAIN p
                  given == args[k] \notin {PyNone, PyStr(<<>>)}
              IN /\ (sent /\ given) => p[KeyOf[k]] = args[k]
                 /\ IF k \in {"max_attendees", "max_results"}
                    THEN (sent <=> args[k] # PyNone) /\ (sent => p[KeyOf[k]] = args[k])
                    ELSE IF op = "list_events" /\ k = "time_min"
                    THEN /\ sent
                         /\ ~given => p.timeMin = PyStr(<<"date#" \o ToString(clock.date), "T",
                                                           clock.time, "Z">>)
                    ELSE sent <=> given

C14_Witness ==
    /\ pc = "waiting"
    /\ op = "get_event"
    /\ args.time_zone = PyStr(<<>>)
    /\ args.max_attendees = PyNone
    /\ requests[1].params = EmptyDict

\* the dateTime of the JSON object `when`, else its date, else "Unknown"
TimeOf(event, key) ==
    LET when == IF key \in DOMAIN event THEN event[key] ELSE EmptyDict
    IN IF "dateTime" \in DOMAIN when THEN when.dateTime
       ELSE IF "date" \in DOMAIN when THEN when.date
       ELSE <<"Unknown">>

\* C15: on a 2xx response with an event JSON body get_event returns a string that contains
\* the summary ("Untitled event" when absent) and the line "When: <start> to <end>" with
\* start and end the _format_datetime of start.dateTime (else start.date, else "Unknown") and
\* of end.dateTime (else end.date, else "Unknown"); it contains "Recurring: Yes" exactly when
\* the body has a recurrence key.
C15_GetEventSummaryAndTimes ==
    (pc = "done" /\ op = "get_event" /\ Success(response.status) /\ response.content = "json") =>
        LET event == response.json
        IN /\ outcome = "returned"
           /\ result.t = "str"
           /\ Occurs(<<"Event: ">> \o (IF "summary" \in DOMAIN event THEN event.summary
                                        ELSE <<"Untitled event">>) \o <<"\n">>, result.s)
           /\ Occurs(<<"When: ">> \o _format_datetime(TimeOf(event, "start")) \o <<" to ">>
                     \o _format_datetime(TimeOf(event, "end")) \o <<"\n">>, result.s)
           /\ Occurs(<<"Recurring: ", "Yes">>, result.s) <=> "recurrence" \in DOMAIN event

C15_Witness ==
    /\ pc = "done"
    /\ op = "get_event"
    /\ response.status = 200
    /\ response.json = EvTimed
    /\ Occurs(<<"Event: ", "Standup", "\n">>, result.s)
    /\ Occurs(<<"When: ", "2023-06-01", " ", "10:00", " ", "AM", " to ",
                "2023-06-01", " ", "11:00", " ", "AM", "\n">>, result.s)
    /\ Occurs(<<"Recurring: ", "No">>, result.s)

\* the 12-hour reading of the times of day that parse
Clock12 ==
    [tm \in {"00:05:00", "12:30:00", "15:30:00"} |->
        CASE tm = "00:05:00" -> <<"12:05", " ", "AM">>
          [] tm = "12:30:00" -> <<"12:30", " ", "PM">>
          [] tm = "15:30:00" -> <<"03:30", " ", "PM">>]

\* the strings that are an ISO datetime: date, "T", time of day, and optionally "Z" or an offset
ParsesAsIso(s) ==
    /\ Len(s) \in {3, 4}
    /\ s[1] \in {"2023-06-01", "2023-12-31"}
    /\ s[2] = "T"
    /\ s[3] \in DOMAIN Clock12
    /\ Len(s) = 4 => s[4] \in {"Z", "+02:00"}

\* C16: _format_datetime gives "Unknown" for None, the empty string and "Unknown"; for any
\* other string without "T" the input followed by " (All day)"; and for a string with "T"
\* that is an ISO datetime (a trailing "Z" read as +00:00) its date, then its time of day on
\* the 12-hour clock, then AM or PM.
C16_FormatDatetimePartition ==
    dt_ret # NoResult =>
        IF dt_arg \in {PyNone, PyStr(<<>>), PyStr(<<"Unknown">>)}
        THEN dt_ret = PyStr(<<"Unknown">>)
        ELSE IF \A i \in 1..Len(dt_arg.s) : dt_arg.s[i] # "T"
        THEN dt_ret = PyStr(dt_arg.s \o <<" ", "(All", " ", "day)">>)
        ELSE ParsesAsIso(dt_arg.s) =>
                dt_ret = PyStr(<<dt_arg.s[1], " ">> \o Clock12[dt_arg.s[3]])

C16_Witness ==
    /\ dt_arg = PyStr(<<"2023-12-31", "T", "00:05:00", "Z">>)
    /\ dt_ret = PyStr(<<"2023-12-31", " ", "12:05", " ", "AM">>)

\* C17 as stated: a string that contains "T" and is no ISO datetime comes back unchanged,
\* also when it ends in "Z".
C17_UnparseableReturnedUnchanged ==
    (dt_ret # NoResult /\ dt_arg # PyNone /\ (\E i \in 1..Len(dt_arg.s) : dt_arg.s[i] = "T")
       /\ ~ParsesAsIso(dt_arg.s)) =>
        dt_ret = dt_arg

C19_MaxResultsAtMost2500 ==
    (pc = "waiting" /\ op \in {"list_events", "get_event_instances"}) =>
        /\ "maxResults" \in DOMAIN requests[1].params
        /\ requests[1].params.maxResults.n <= 2500

\* C20 as stated: on a 2xx JSON response list_events and get_event_instances return a string
\* that contains page_token='<token>' when the body has a nextPageToken, empty items list or
\* not, and mentions no page token when it has none.
C20_PageTokenAlwaysReported ==
    (pc = "done" /\ op \in {"list_events", "get_event_instances"}
       /\ Success(response.status) /\ response.content = "json") =>
        /\ outcome = "returned"
        /\ IF "nextPageToken" \in DOMAIN response.json
           THEN Occurs(<<"page_token='">> \o response.json.nextPageToken \o <<"'">>, result.s)
           ELSE \A i \in 1..Len(result.s) : result.s[i] # "page_token='"

\* the request window of get_today_events and the header of its result, but for the
\* non-emptiness of the window
TodayWindow ==
    /\ (pc = "waiting" /\ op = "get_today_events") =>
          LET p == requests[1].params
          IN /\ p.timeMin = PyStr(<<"date#" \o ToString(clock.date), "T", "00:00:00", "Z">>)
             /\ p.timeMax = PyStr(<<"date#" \o ToString(clock.date + args.days.n), "T",
                                    "00:00:00", "Z">>)
             /\ p.singleEvents = PyStr(<<"true">>)
             /\ p.orderBy = PyStr(<<"startTime">>)
    /\ (pc = "done" /\ op = "get_today_events" /\ outcome = "returned") =>
          (result.s[2] = "today" <=> args.days.n = 1)

\* C21 as stated: for every days, get_today_events requests the window from 00:00:00Z of the
\* current UTC date to 00:00:00Z of that date plus days, with singleEvents=true and
\* orderBy=startTime; timeMin is strictly before timeMax; the header says "today" exactly
\* when days = 1.
C21_TodayWindowNonEmpty ==
    /\ TodayWindow
    /\ (pc = "waiting" /\ op = "get_today_events") => clock.date < clock.date + args.days.n

\* C22: quick_add_event issues a POST to /calendars/primary/events/quickAdd with no body and
\* with exactly the query parameters text and sendUpdates, holding the caller's values; on a
\* 2xx JSON response its confirmation shows "When: <start> to <end>" when the formatted start
\* and end differ and "When: <start>" alone when they are equal.
C22_QuickAddRequestAndWhen ==
    /\ (pc \in {"waiting", "done"} /\ op = "quick_add_event") =>
          /\ Len(requests) = 1
          /\ requests[1].verb = "POST"
          /\ requests[1].url = <<"https://www.googleapis.com", "/", "calendar", "/", "v3", "/",
                                 "calendars", "/", "primary", "/", "events", "/", "quickAdd">>
          /\ requests[1].data = PyNone
          /\ requests[1].params = [text |-> args.text, sendUpdates |-> args.send_updates]
    /\ (pc = "done" /\ op = "quick_add_event" /\ Success(response.status)
          /\ response.content = "json") =>
          LET s == _format_datetime(TimeOf(response.json, "start"))
              e == _format_datetime(TimeOf(response.json, "end"))
          IN /\ outcome = "returned"
             /\ result.t = "str"
             /\ IF s # e
                THEN Occurs(<<"When: ">> \o s \o <<" to ">> \o e \o <<"\nWhere: ">>, result.s)
                ELSE Occurs(<<"When: ">> \o s \o <<"\nWhere: ">>, result.s)

C22_Witness ==
    /\ pc = "done"
    /\ op = "quick_add_event"
    /\ args.send_updates = PyStr(<<"none">>)
    /\ requests[1].params.sendUpdates = PyStr(<<"none">>)
    /\ response.json = EvAllDay
    /\ Occurs(<<"When: ", "2023-06-02", " ", "(All", " ", "day)", "\nWhere: ">>, result.s)

\* the ids of the events on the server's pages
HeldIds(pages) == UNION {{pages[i][j].id : j \in 1..Len(pages[i])} : i \in 1..Len(pages)}

\* C23 as stated: a caller that follows the page tokens shown, and stops at the first result
\* that shows none, has by then been shown every event of every page the server holds, pages
\* with an empty items list included.
C23_PagingShowsEverything ==
    pager.pc = "stopped" => pager.shown = HeldIds(pager.pages)

\* C24 as stated: the result of get_event_instances carries [CANCELLED] exactly when an
\* instance has status "cancelled", [TENTATIVE] exactly when one has status "tentative", and
\* [MODIFIED], together with an "Original time" line, only when some instance's start differs
\* from its originalStartTime.
C24_InstanceTags ==
    (pc = "done" /\ op = "get_event_instances" /\ Success(response.status)
       /\ response.content = "json" /\ "items" \in DOMAIN response.json
       /\ response.json.items # <<>>) =>
        LET items == response.json.items
            some(P(_)) == \E i \in 1..Len(items) : P(items[i])
            cancelled(x) == "status" \in DOMAIN x /\ x.status = <<"cancelled">>
            tentative(x) == "status" \in DOMAIN x /\ x.status = <<"tentative">>
            moved(x) == /\ "originalStartTime" \in DOMAIN x
                        /\ (IF "start" \in DOMAIN x THEN x.start ELSE EmptyDict)
                              # x.originalStartTime
        IN /\ outcome = "returned"
           /\ Occurs(<<" [CANCELLED]">>, result.s) <=> some(cancelled)
           /\ Occurs(<<" [TENTATIVE]">>, result.s) <=> some(tentative)
           /\ Occurs(<<" [MODIFIED]">>, result.s) <=> Occurs(<<"   Original time: ">>, result.s)
           /\ Occurs(<<" [MODIFIED]">>, result.s) => some(moved)

\* C25: list_tools returns each public operation of the class exactly once: its 36 entries
\* are pairwise different, they are the methods of the class other than the underscore
\* helpers (__init__, _format_datetime) and list_tools itself, and they are the operations a
\* caller can invoke.
C25_ListToolsExactlyOnce ==
    /\ Len(list_tools) = 36
    /\ \A i, j \in 1..Len(list_tools) : i # j => list_tools[i] # list_tools[j]
    /\ Range(list_tools) = Range(Methods) \ (Helpers \cup {"list_tools"})
    /\ "_format_datetime" \notin Range(list_tools)
    /\ "list_tools" \notin Range(list_tools)
    /\ Range(list_tools) = Ops
    /\ pc # "idle" => op \in Range(list_tools)

C25_Witness ==
    /\ pc = "done"
    /\ op = list_tools[36]
    /\ op = "query_free_busy"
    /\ outcome = "returned"
====
